---- MODULE Spec2Model ----
(***************************************************************************)
(* A model of the threaded frame-streaming engine of blunt.py              *)
(* (VideoStream, VideoWriter, VideoCropper, TimeStamp, VideoTime) and of   *)
(* the orchestrating script scripts/video_crop.py.                         *)
(*                                                                         *)
(* Every thread is a program counter; one action is one step of a thread   *)
(* that touches at most one object shared with another thread (an Event,   *)
(* a Queue, Thread.is_alive / join).  Times are integer milliseconds, frame *)
(* rates are integers dividing 1000, a frame is the record of the file and *)
(* the decode position it was grabbed at plus the image region it covers.  *)
(***************************************************************************)
EXTENDS Integers, Sequences, FiniteSets, TLC

(***************************************************************************)
(* Bounds of the model                                                     *)
(***************************************************************************)
\* the longest media file of the small scenarios, in frames
MaxFrames == 3
\* the timestamps of the small scenarios are 0 .. MaxHalfSec half seconds
MaxHalfSec == 3
\* the most frames the foreground offers to a sink in the small scenarios
MaxWrites == 3
\* the most input files on video_crop's command line
MaxFiles == 2

(***************************************************************************)
(* Program constants                                                       *)
(***************************************************************************)
\* Queue(maxsize=128)
QueueMax == 128

\* Python's None where a timestamp is optional
NoTime == -1

\* an object that has not been constructed
NoObject == [t |-> "none"]

Streams == 1..MaxFiles

(***************************************************************************)
(* TimeModel: TimeStamp / VideoTime (times in milliseconds)                *)
(***************************************************************************)
\* int(num / den) of Python: the fraction cut towards zero
IntOf(num, den) == IF num >= 0 THEN num \div den ELSE -((-num) \div den)

\* VideoTime.__init__: frame_number = int(seconds * fps) + 1
VideoTime(ms, fps) ==
    [seconds |-> ms, fps |-> fps, frame_number |-> IntOf(ms * fps, 1000) + 1]

\* frame_videotime: the frame number is stored as given, seconds = n / fps
\* (a ZeroDivisionError when fps is 0, see Unopened)
frame_videotime(n, fps) ==
    [seconds |-> (n * 1000) \div fps, fps |-> fps, frame_number |-> n]

\* VideoStream.set_beginning: None means "0:0:0"
set_beginning(ts, fps) == VideoTime(IF ts = NoTime THEN 0 ELSE ts, fps)

\* VideoStream.set_end: None means the length of the media
set_end(ts, length, fps) ==
    IF ts = NoTime THEN frame_videotime(length, fps) ELSE VideoTime(ts, fps)

(***************************************************************************)
(* Queue.Queue                                                             *)
(***************************************************************************)
full(q) == Len(q) >= QueueMax
put(q, f) == Append(q, f)
qget(q) == Tail(q)
qfront(q) == Head(q)

(***************************************************************************)
(* State                                                                   *)
(***************************************************************************)
VARIABLES
    video,    \* the media files: video[i] = [length, fps, width, height]
    options,  \* video_crop's parsed options: start, end, splits; n input files
    crops,    \* video_crop's crop table: a sequence of [x, y, w, h]
    seek,     \* seek[i]: whether camera.set(POS_FRAMES, n) takes effect on file i
    stream,   \* stream[i]: the VideoStream over file i, its camera and its thread
    sink,     \* sink[s]: a VideoWriter / VideoCropper, its handle and its thread
    pc,       \* the foreground program
    loc,      \* the foreground program's local variables
    op,       \* the blunt call the foreground thread is in ("idle": none)
    cur,      \* the stream the foreground's call is on
    sk,       \* the sink the foreground's call is on
    arg,      \* the frame passed to write()
    ret       \* what the last finished call returned

vars == <<video, options, crops, seek, stream, sink, pc, loc, op, cur, sk, arg, ret>>

\* the files and how the decoder treats them: nothing changes them
envVars == <<video, options, crops, seek>>
\* the foreground program
mainVars == <<pc, loc>>
\* the foreground's call in progress
callVars == <<op, cur, sk, arg, ret>>

\* the frame decoded at position p of file i: the whole image
Frame(i, p) ==
    [file |-> i, idx |-> p, x |-> 0, y |-> 0,
     w |-> video[i].width, h |-> video[i].height]

(***************************************************************************)
(* VideoStream                                                             *)
(***************************************************************************)
\* VideoStream.__init__ on file i with optional beginning and end
NewStream(i, beginning, end) ==
    LET v == video[i]
        b == set_beginning(beginning, v.fps)
    IN  [t |-> "new", wpc |-> "idle",
         camera |-> [pos |-> IF seek[i] THEN b.frame_number ELSE 0,
                     state |-> "open"],
         fps |-> v.fps, length |-> v.length,
         beginning |-> b, end |-> set_end(end, v.length, v.fps),
         frame_number |-> 0, cap_position |-> b.frame_number,
         Q |-> <<>>, stopped |-> FALSE, released |-> FALSE,
         \* history
         enq |-> <<>>, got |-> <<>>, eos |-> -1, releases |-> 0,
         stopcalls |-> 0, stoprets |-> 0, nones |-> 0]

\* faulty variant: the frame of the beginning counts as before it
before_or_at(s) == s.cap_position <= s.beginning.frame_number
\* VideoStream.before, line 130
before(s) == s.cap_position < s.beginning.frame_number
\* faulty variant: after with > for >=
after_strict(s) == s.cap_position > s.end.frame_number
\* VideoStream.after, lines 132-134
after(s) == s.cap_position >= s.end.frame_number
\* faulty variant: in_range as "neither before nor after"
in_range_neither(s) == ~(before(s) \/ after(s))
\* VideoStream.in_range, line 137
in_range(s) == ~(before(s) /\ after(s))
running(s) == ~s.stopped

Upd(i, s) == stream' = [stream EXCEPT ![i] = s]

Worker(i, at) == stream[i].t = "alive" /\ stream[i].wpc = at

\* camera.grab(): succeeds on a frame that exists, may fail on any
GrabOutcomes(s) ==
    IF s.camera.pos < s.length THEN {TRUE, FALSE} ELSE {FALSE}

\* reader, line 140: while not self.stopped.is_set()
reader_loop(i) ==
    /\ Worker(i, "loop")
    /\ Upd(i, [stream[i] EXCEPT
                 !.wpc = IF stream[i].stopped THEN "release" ELSE "full"])
    /\ UNCHANGED <<envVars, sink, mainVars, callVars>>

\* faulty variant: reader without the Q.full() test of line 141
reader_full_skipped(i) ==
    /\ Worker(i, "full")
    /\ Upd(i, [stream[i] EXCEPT !.wpc = "pos"])
    /\ UNCHANGED <<envVars, sink, mainVars, callVars>>

\* reader, line 141: if not self.Q.full()
reader_full(i) ==
    /\ Worker(i, "full")
    /\ Upd(i, [stream[i] EXCEPT
                 !.wpc = IF full(stream[i].Q) THEN "loop" ELSE "pos"])
    /\ UNCHANGED <<envVars, sink, mainVars, callVars>>

\* faulty variant: the reader leaves its loop at the window's end without
\* setting stopped
reader_pos_break_only(i) ==
    /\ Worker(i, "pos")
    /\ LET s == stream[i]
           s1 == [s EXCEPT !.cap_position = s.camera.pos]
       IN  IF after(s)
           THEN Upd(i, [s EXCEPT !.wpc = "release"])
           ELSE IF after(s1)
           THEN Upd(i, [s1 EXCEPT !.wpc = "release"])
           ELSE Upd(i, [s1 EXCEPT !.wpc = "grab"])
    /\ UNCHANGED <<envVars, sink, mainVars, callVars>>

\* reader, lines 144-154: the two end tests around camera.get(1)
reader_pos(i) ==
    /\ Worker(i, "pos")
    /\ LET s == stream[i]
           s1 == [s EXCEPT !.cap_position = s.camera.pos]
       IN  IF after(s)
           THEN Upd(i, [s EXCEPT !.stopped = TRUE, !.wpc = "release"])
           ELSE IF after(s1)
           THEN Upd(i, [s1 EXCEPT !.stopped = TRUE, !.wpc = "release"])
           ELSE Upd(i, [s1 EXCEPT !.wpc = "grab"])
    /\ UNCHANGED <<envVars, sink, mainVars, callVars>>

\* reader, line 157 and the retry loop of lines 161-167: camera.grab()
reader_grab(i) ==
    /\ stream[i].t = "alive"
    /\ stream[i].wpc \in {"grab", "retry"}
    /\ \E grabbed \in GrabOutcomes(stream[i]) :
          IF grabbed
          THEN Upd(i, [stream[i] EXCEPT !.camera.pos = @ + 1, !.wpc = "retrieve"])
          ELSE Upd(i, [stream[i] EXCEPT !.wpc = "retry"])
    /\ UNCHANGED <<envVars, sink, mainVars, callVars>>

\* faulty variant: the reader puts every frame it retrieves
reader_retrieve_unfiltered(i) ==
    /\ Worker(i, "retrieve")
    /\ LET s == stream[i]
           frame == Frame(i, s.cap_position)
       IN  /\ ~full(s.Q)
           /\ Upd(i, [s EXCEPT !.Q = put(@, frame), !.enq = Append(@, frame),
                               !.wpc = "loop"])
    /\ UNCHANGED <<envVars, sink, mainVars, callVars>>

\* reader, lines 173-174: retrieve, and put unless before the beginning
reader_retrieve(i) ==
    /\ Worker(i, "retrieve")
    /\ LET s == stream[i]
           frame == Frame(i, s.cap_position)
       IN  IF before(s)
           THEN Upd(i, [s EXCEPT !.wpc = "loop"])
           ELSE /\ ~full(s.Q)
                /\ Upd(i, [s EXCEPT !.Q = put(@, frame), !.enq = Append(@, frame),
                                    !.wpc = "loop"])
    /\ UNCHANGED <<envVars, sink, mainVars, callVars>>

\* faulty variant: the reader ends without releasing the camera
reader_release_skipped(i) ==
    /\ Worker(i, "release")
    /\ Upd(i, [stream[i] EXCEPT !.wpc = "exit"])
    /\ UNCHANGED <<envVars, sink, mainVars, callVars>>

\* reader, lines 175-176: camera.release(); released.set()
reader_release(i) ==
    /\ Worker(i, "release")
    /\ Upd(i, [stream[i] EXCEPT !.camera.state = "released", !.released = TRUE,
                                !.releases = @ + 1, !.wpc = "exit"])
    /\ UNCHANGED <<envVars, sink, mainVars, callVars>>

\* the reader thread ends: is_alive() turns false, join() returns
reader_exit(i) ==
    /\ Worker(i, "exit")
    /\ Upd(i, [stream[i] EXCEPT !.t = "dead", !.wpc = "done"])
    /\ UNCHANGED <<envVars, sink, mainVars, callVars>>

reader(i) ==
    \/ reader_loop(i)
    \/ reader_full(i)
    \/ reader_pos(i)
    \/ reader_grab(i)
    \/ reader_retrieve(i)
    \/ reader_release(i)
    \/ reader_exit(i)

(***************************************************************************)
(* The foreground's calls on the current stream                            *)
(***************************************************************************)
Returned(v) == op' = "idle" /\ ret' = v
Raised(e) == Returned([kind |-> "exc", exc |-> e])
Ok == [kind |-> "ok"]
NoneRet == [kind |-> "none"]

\* faulty variant: start that runs the reader again whatever the thread's state
stream_start_again ==
    /\ op = "start"
    /\ Upd(cur, [stream[cur] EXCEPT !.t = "alive", !.wpc = "loop"])
    /\ Returned(Ok)
    /\ UNCHANGED <<envVars, sink, mainVars, cur, sk, arg>>

\* VideoStream.start: Thread.start() raises when the thread was started before
stream_start ==
    /\ op = "start"
    /\ IF stream[cur].t = "new"
       THEN /\ Upd(cur, [stream[cur] EXCEPT !.t = "alive", !.wpc = "loop"])
            /\ Returned(Ok)
       ELSE /\ Raised("RuntimeError")
            /\ UNCHANGED stream
    /\ UNCHANGED <<envVars, sink, mainVars, cur, sk, arg>>

\* VideoStream.stop, line 117: self.stopped.set()
stream_stop_set ==
    /\ op = "stop"
    /\ Upd(cur, [stream[cur] EXCEPT !.stopped = TRUE, !.stopcalls = 1])
    /\ op' = "join"
    /\ UNCHANGED <<envVars, sink, mainVars, cur, sk, arg, ret>>

\* faulty variant: stop that returns without waiting for the thread
stream_stop_nojoin ==
    /\ op = "join"
    /\ IF stream[cur].t = "new"
       THEN Raised("RuntimeError") /\ UNCHANGED stream
       ELSE /\ Returned(Ok)
            /\ Upd(cur, [stream[cur] EXCEPT
                           !.stoprets = IF @ < 2 THEN @ + 1 ELSE @])
    /\ UNCHANGED <<envVars, sink, mainVars, cur, sk, arg>>

\* VideoStream.stop, line 118: self.t.join(), which raises on a thread never
\* started and waits for a live one
stream_stop_join ==
    /\ op = "join"
    /\ stream[cur].t # "alive"
    /\ IF stream[cur].t = "new"
       THEN Raised("RuntimeError") /\ UNCHANGED stream
       ELSE /\ Returned(Ok)
            /\ Upd(cur, [stream[cur] EXCEPT
                           !.stoprets = IF @ < 2 THEN @ + 1 ELSE @])
    /\ UNCHANGED <<envVars, sink, mainVars, cur, sk, arg>>

\* read() returns None.  History: eos is the number of frames the started
\* stream had delivered when it first returned None, nones counts (to 2) the
\* None returned with the worker gone and the queue empty
ReadNone ==
    /\ Returned(NoneRet)
    /\ LET s == stream[cur]
       IN  Upd(cur, [s EXCEPT
                 !.eos = IF @ = -1 /\ s.t # "new" THEN Len(s.got) ELSE @,
                 !.nones = IF s.t = "dead" /\ s.Q = <<>> /\ @ < 2 THEN @ + 1 ELSE @])

\* VideoStream.read, line 121: while not self.Q.qsize()
read_qsize ==
    /\ op = "read"
    /\ op' = IF Len(stream[cur].Q) = 0 THEN "read_alive" ELSE "read_get"
    /\ UNCHANGED <<envVars, stream, sink, mainVars, cur, sk, arg, ret>>

\* faulty variant: read without the is_alive test of line 122
read_alive_skipped ==
    /\ op = "read_alive"
    /\ op' = "read_stopped"
    /\ UNCHANGED <<envVars, stream, sink, mainVars, cur, sk, arg, ret>>

\* VideoStream.read, line 122: if not self.t.is_alive(): return
read_alive ==
    /\ op = "read_alive"
    /\ IF stream[cur].t # "alive"
       THEN ReadNone
       ELSE op' = "read_stopped" /\ UNCHANGED <<stream, ret>>
    /\ UNCHANGED <<envVars, sink, mainVars, cur, sk, arg>>

\* VideoStream.read, line 124: if self.stopped.is_set(): return
read_stopped ==
    /\ op = "read_stopped"
    /\ IF stream[cur].stopped
       THEN ReadNone
       ELSE op' = "read" /\ UNCHANGED <<stream, ret>>
    /\ UNCHANGED <<envVars, sink, mainVars, cur, sk, arg>>

\* VideoStream.read, lines 126-127: count the frame and Q.get() it
read_get ==
    /\ op = "read_get"
    /\ Len(stream[cur].Q) > 0
    /\ LET s == stream[cur]
           f == qfront(s.Q)
       IN  /\ Upd(cur, [s EXCEPT !.Q = qget(@), !.frame_number = @ + 1,
                                 !.got = Append(@, f)])
           /\ Returned([kind |-> "frame", frame |-> f])
    /\ UNCHANGED <<envVars, sink, mainVars, cur, sk, arg>>

read ==
    \/ read_qsize
    \/ read_alive
    \/ read_stopped
    \/ read_get

(***************************************************************************)
(* VideoWriter / VideoCropper                                              *)
(***************************************************************************)
Min(a, b) == IF a < b THEN a ELSE b

\* faulty variant: frame[x:x+w, y:y+h], rows and columns exchanged
SliceTransposed(f, x, y, w, h) ==
    [f EXCEPT !.x = f.x + Min(y, f.w), !.y = f.y + Min(x, f.h),
              !.w = Min(y + h, f.w) - Min(y, f.w),
              !.h = Min(x + w, f.h) - Min(x, f.h)]

\* frame[y:y+h, x:x+w]: the slice, cut off where the image ends
Slice(f, x, y, w, h) ==
    [f EXCEPT !.x = f.x + Min(x, f.w), !.y = f.y + Min(y, f.h),
              !.w = Min(x + w, f.w) - Min(x, f.w),
              !.h = Min(y + h, f.h) - Min(y, f.h)]

\* VideoWriter.__init__ (crop = FALSE) and VideoCropper.__init__ (crop = TRUE):
\* the encode handle is opened by the constructor
NewSink(crop, x, y, w, h) ==
    [t |-> "new", wpc |-> "idle", vw |-> "open",
     crop |-> crop, x |-> x, y |-> y, w |-> w, h |-> h,
     Q |-> <<>>, stopped |-> FALSE, frame_number |-> 0,
     \* the frames passed to vw.write, in order
     out |-> <<>>,
     \* history
     accepted |-> <<>>, releases |-> 0, stopcalls |-> 0, stoprets |-> 0,
     prestop |-> <<>>, startedAtStop |-> FALSE, queuedAtStop |-> 0]

UpdK(s, v) == sink' = [sink EXCEPT ![s] = v]

WorkerK(s, at) == sink[s].t = "alive" /\ sink[s].wpc = at

\* faulty variant: writer whose first loop never ends
writer_running_forever(s) ==
    /\ WorkerK(s, "run")
    /\ UpdK(s, [sink[s] EXCEPT !.wpc = "empty"])
    /\ UNCHANGED <<envVars, stream, mainVars, callVars>>

\* writer, line 232: while self.running()
writer_running(s) ==
    /\ WorkerK(s, "run")
    /\ UpdK(s, [sink[s] EXCEPT !.wpc = IF running(sink[s]) THEN "empty" ELSE "drain"])
    /\ UNCHANGED <<envVars, stream, mainVars, callVars>>

\* writer, line 233: if not self.Q.empty()
writer_empty(s) ==
    /\ WorkerK(s, "empty")
    /\ UpdK(s, [sink[s] EXCEPT !.wpc = IF Len(sink[s].Q) > 0 THEN "get" ELSE "run"])
    /\ UNCHANGED <<envVars, stream, mainVars, callVars>>

\* faulty variant: the newest frame of the queue is taken, not the oldest
EncodeNewest(k) ==
    [k EXCEPT !.Q = SubSeq(@, 1, Len(@) - 1), !.frame_number = @ + 1,
              !.out = Append(@, k.Q[Len(k.Q)])]

\* lines 234-236 and 238-240: Q.get(), count, vw.write(frame)
Encode(k) ==
    [k EXCEPT !.Q = qget(@), !.frame_number = @ + 1,
              !.out = Append(@, qfront(k.Q))]

\* writer, lines 234-236
writer_get(s) ==
    /\ WorkerK(s, "get")
    /\ Len(sink[s].Q) > 0
    /\ UpdK(s, [Encode(sink[s]) EXCEPT !.wpc = "run"])
    /\ UNCHANGED <<envVars, stream, mainVars, callVars>>

\* faulty variant: writer without the second loop of lines 237-240
writer_nodrain(s) ==
    /\ WorkerK(s, "drain")
    /\ UpdK(s, [sink[s] EXCEPT !.wpc = "release"])
    /\ UNCHANGED <<envVars, stream, mainVars, callVars>>

\* writer, lines 237-240: the queue is emptied once the loop is left
writer_drain(s) ==
    /\ WorkerK(s, "drain")
    /\ IF Len(sink[s].Q) > 0
       THEN UpdK(s, Encode(sink[s]))
       ELSE UpdK(s, [sink[s] EXCEPT !.wpc = "release"])
    /\ UNCHANGED <<envVars, stream, mainVars, callVars>>

\* writer, line 241: self.vw.release()
writer_release(s) ==
    /\ WorkerK(s, "release")
    /\ UpdK(s, [sink[s] EXCEPT !.vw = "released", !.releases = @ + 1,
                               !.wpc = "exit"])
    /\ UNCHANGED <<envVars, stream, mainVars, callVars>>

\* the writer thread ends
writer_exit(s) ==
    /\ WorkerK(s, "exit")
    /\ UpdK(s, [sink[s] EXCEPT !.t = "dead", !.wpc = "done"])
    /\ UNCHANGED <<envVars, stream, mainVars, callVars>>

writer(s) ==
    \/ writer_running(s)
    \/ writer_empty(s)
    \/ writer_get(s)
    \/ writer_drain(s)
    \/ writer_release(s)
    \/ writer_exit(s)

(***************************************************************************)
(* The foreground's calls on the current sink                              *)
(***************************************************************************)
\* VideoWriter.start
sink_start ==
    /\ op = "kstart"
    /\ IF sink[sk].t = "new"
       THEN /\ UpdK(sk, [sink[sk] EXCEPT !.t = "alive", !.wpc = "run"])
            /\ Returned(Ok)
       ELSE /\ Raised("RuntimeError")
            /\ UNCHANGED sink
    /\ UNCHANGED <<envVars, stream, mainVars, cur, sk, arg>>

\* VideoWriter.stop, line 221: self.stopped.set()
sink_stop_set ==
    /\ op = "kstop"
    /\ LET k == sink[sk]
       IN  UpdK(sk, [k EXCEPT !.stopped = TRUE, !.stopcalls = 1,
                       !.prestop = IF k.stopcalls = 0 THEN k.accepted ELSE @,
                       !.startedAtStop = IF k.stopcalls = 0 THEN k.t # "new" ELSE @,
                       !.queuedAtStop = IF k.stopcalls = 0 THEN Len(k.Q) ELSE @])
    /\ op' = "kjoin"
    /\ UNCHANGED <<envVars, stream, mainVars, cur, sk, arg, ret>>

\* faulty variant: stop that returns without waiting for the writer thread
sink_stop_nojoin ==
    /\ op = "kjoin"
    /\ IF sink[sk].t = "new"
       THEN Raised("RuntimeError") /\ UNCHANGED sink
       ELSE /\ Returned(Ok)
            /\ UpdK(sk, [sink[sk] EXCEPT !.stoprets = IF @ < 2 THEN @ + 1 ELSE @])
    /\ UNCHANGED <<envVars, stream, mainVars, cur, sk, arg>>

\* VideoWriter.stop, line 222: self.t.join()
sink_stop_join ==
    /\ op = "kjoin"
    /\ sink[sk].t # "alive"
    /\ IF sink[sk].t = "new"
       THEN Raised("RuntimeError") /\ UNCHANGED sink
       ELSE /\ Returned(Ok)
            /\ UpdK(sk, [sink[sk] EXCEPT !.stoprets = IF @ < 2 THEN @ + 1 ELSE @])
    /\ UNCHANGED <<envVars, stream, mainVars, cur, sk, arg>>

\* faulty variant: write without the is_alive test
write_alive_skipped ==
    /\ op = "write"
    /\ op' = "write_full"
    /\ UNCHANGED <<envVars, stream, sink, mainVars, cur, sk, arg, ret>>

\* write, lines 225 / 268: if self.t.is_alive() ... else raise IOError
write_alive ==
    /\ op = "write"
    /\ IF sink[sk].t = "alive"
       THEN op' = "write_full" /\ UNCHANGED ret
       ELSE Raised("IOError")
    /\ UNCHANGED <<envVars, stream, sink, mainVars, cur, sk, arg>>

\* write, lines 226 / 269: while self.Q.full(): pass
write_full ==
    /\ op = "write_full"
    /\ op' = IF full(sink[sk].Q) THEN "write_full" ELSE "write_put"
    /\ UNCHANGED <<envVars, stream, sink, mainVars, cur, sk, arg, ret>>

\* what write() enqueues: the frame (line 227), or its crop (line 270)
Enqueued(k, frame) ==
    IF k.crop THEN Slice(frame, k.x, k.y, k.w, k.h) ELSE frame

\* write, lines 227 / 270: self.Q.put(...)
write_put ==
    /\ op = "write_put"
    /\ ~full(sink[sk].Q)
    /\ LET k == sink[sk]
           f == Enqueued(k, arg)
       IN  UpdK(sk, [k EXCEPT !.Q = put(@, f), !.accepted = Append(@, f)])
    /\ Returned(Ok)
    /\ UNCHANGED <<envVars, stream, mainVars, cur, sk, arg>>

write ==
    \/ write_alive
    \/ write_full
    \/ write_put

(***************************************************************************)
(* A client of one VideoStream or of one sink: a single foreground thread  *)
(* that calls start, read / write and stop in any order                    *)
(***************************************************************************)
HalfSecs == {NoTime} \cup {500 * n : n \in 0..MaxHalfSec}

SmallVideos ==
    [length : 0..MaxFrames, fps : {1, 2}, width : {2}, height : {2}]

\* the scenario of a 100-frame file at 25 frames per second
Video100 == [length |-> 100, fps |-> 25, width |-> 2, height |-> 2]

NoVideo == [length |-> 0, fps |-> 1, width |-> 0, height |-> 0]

Groups == {1, 2, 3}
Crops == {1, 2}
SinkIds == Groups \X Crops

\* the sinks a client is given: a VideoWriter of the frame's size, a
\* VideoCropper inside the frame, and one that reaches over its edge
ClientSinks ==
    {NewSink(FALSE, 0, 0, 2, 2), NewSink(TRUE, 1, 0, 1, 2), NewSink(TRUE, 1, 1, 2, 2)}

\* the n-th frame a client writes: a whole 2 x 2 image
ClientFrame(n) == [file |-> 0, idx |-> n, x |-> 0, y |-> 0, w |-> 2, h |-> 2]

NoOptions == [n |-> 0, start |-> 0, end |-> NoTime, splits |-> <<>>]

InitClient ==
    /\ options = NoOptions
    /\ crops = <<>>
    /\ pc = "client"
    /\ op = "idle"
    /\ cur = 1
    /\ sk = <<1, 1>>
    /\ arg = ClientFrame(0)
    /\ ret = Ok

\* one VideoStream over the file v, opened with a beginning of B and an end
\* of E, its seek to the beginning taking effect or not
OneStream(v, B, E) ==
    /\ video = [i \in Streams |-> IF i = 1 THEN v ELSE NoVideo]
    /\ seek \in [Streams -> BOOLEAN]
    /\ seek[2]
    /\ \E b \in B, e \in E :
          stream = [i \in Streams |->
                      IF i = 1 THEN NewStream(1, b, e) ELSE NoObject]

InitSource ==
    /\ \E v \in SmallVideos : OneStream(v, HalfSecs, HalfSecs)
    /\ sink = [s \in SinkIds |-> NoObject]
    /\ loc = [nwrites |-> 0]
    /\ InitClient

InitSink ==
    /\ video = [i \in Streams |-> NoVideo]
    /\ seek = [i \in Streams |-> TRUE]
    /\ stream = [i \in Streams |-> NoObject]
    /\ \E k \in ClientSinks :
          sink = [s \in SinkIds |-> IF s = <<1, 1>> THEN k ELSE NoObject]
    /\ loc \in [nwrites : 0..MaxWrites]
    /\ InitClient

\* the client calls a method of its stream
client_stream ==
    /\ pc = "client"
    /\ op = "idle"
    /\ stream[cur].t # "none"
    /\ op' \in {"start", "read", "stop"}
    /\ UNCHANGED <<envVars, stream, sink, mainVars, cur, sk, arg, ret>>

\* the client calls start or stop on its sink
client_sink ==
    /\ pc = "client"
    /\ op = "idle"
    /\ sink[sk].t # "none"
    /\ op' \in {"kstart", "kstop"}
    /\ UNCHANGED <<envVars, stream, sink, mainVars, cur, sk, arg, ret>>

\* the client calls write with its next frame
client_write ==
    /\ pc = "client"
    /\ op = "idle"
    /\ sink[sk].t # "none"
    /\ arg.idx < loc.nwrites
    /\ arg' = ClientFrame(arg.idx + 1)
    /\ op' = "write"
    /\ UNCHANGED <<envVars, stream, sink, mainVars, cur, sk, ret>>

Init == InitSource \/ InitSink

Workers ==
    \/ \E i \in Streams : reader(i)
    \/ \E s \in SinkIds : writer(s)

Calls ==
    \/ read
    \/ stream_start
    \/ stream_stop_set
    \/ stream_stop_join
    \/ write
    \/ sink_start
    \/ sink_stop_set
    \/ sink_stop_join

Next ==
    \/ Workers
    \/ Calls
    \/ client_stream
    \/ client_sink
    \/ client_write

Spec == Init /\ [][Next]_vars

(***************************************************************************)
(* The same clients with cv2 calls that raise: an exception of              *)
(* camera.grab(), camera.retrieve() or vw.write() is not caught in reader   *)
(* or writer, so it ends the thread at the call                            *)
(***************************************************************************)
\* reader, lines 157, 167 and 173: the decode call raises
reader_error(i) ==
    /\ stream[i].t = "alive"
    /\ stream[i].wpc \in {"grab", "retry", "retrieve"}
    /\ Upd(i, [stream[i] EXCEPT !.t = "dead", !.wpc = "failed"])
    /\ UNCHANGED <<envVars, sink, mainVars, callVars>>

\* writer, lines 236 and 240: the encode call raises, the frame taken from
\* the queue is lost
writer_error(s) ==
    /\ sink[s].t = "alive"
    /\ sink[s].wpc \in {"get", "drain"}
    /\ Len(sink[s].Q) > 0
    /\ UpdK(s, [sink[s] EXCEPT !.Q = qget(@), !.frame_number = @ + 1,
                               !.t = "dead", !.wpc = "failed"])
    /\ UNCHANGED <<envVars, stream, mainVars, callVars>>

NextFail ==
    \/ Next
    \/ \E i \in Streams : reader_error(i)
    \/ \E s \in SinkIds : writer_error(s)

SpecFail == Init /\ [][NextFail]_vars

(***************************************************************************)
(* The scenario of the 100-frame file: 25 frames per second, opened from   *)
(* 0:0:0 to 0:0:2, with a client of the stream                             *)
(***************************************************************************)
Init100 ==
    /\ OneStream(Video100, {0}, {2000})
    /\ sink = [s \in SinkIds |-> NoObject]
    /\ loc = [nwrites |-> 0]
    /\ InitClient

Next100 ==
    \/ \E i \in Streams : reader(i)
    \/ read
    \/ stream_start
    \/ stream_stop_set
    \/ stream_stop_join
    \/ client_stream

Spec100 == Init100 /\ [][Next100]_vars

(***************************************************************************)
(* The client of one VideoStream with its reader thread scheduled: a       *)
(* thread that can take a step is not held back forever                    *)
(***************************************************************************)
ReaderFair == \A i \in Streams : WF_vars(reader(i))

SpecSourceFair == InitSource /\ [][Next100]_vars /\ ReaderFair

\* the same, the caller's stop() scheduled too: the caller is not held back
\* at self.stopped.set() nor at a join() that can return
StopFair == WF_vars(stream_stop_set) /\ WF_vars(stream_stop_join)
SpecStopFair == InitSource /\ [][Next100]_vars /\ ReaderFair /\ StopFair

(***************************************************************************)
(* The client of one sink with its writer thread scheduled, and the         *)
(* caller's stop() too                                                      *)
(***************************************************************************)
NextSink ==
    \/ \E s \in SinkIds : writer(s)
    \/ write
    \/ sink_start
    \/ sink_stop_set
    \/ sink_stop_join
    \/ client_sink
    \/ client_write

WriterFair == \A s \in SinkIds : WF_vars(writer(s))
SinkStopFair == WF_vars(sink_stop_set) /\ WF_vars(sink_stop_join)
SpecSinkFair == InitSink /\ [][NextSink]_vars /\ WriterFair /\ SinkStopFair

(***************************************************************************)
(* The with-blocks of VideoInput and VideoOutput, as blunt.py documents    *)
(* them: "with VideoInput(fname) as video: for frame in video: ..." and    *)
(* "with VideoOutput(...) as video: for frame in [...]: video.write(frame)"*)
(***************************************************************************)
\* VideoInput.__enter__: self.start()
with_enter_in ==
    /\ pc = "with_in"
    /\ op = "idle"
    /\ op' = "start"
    /\ pc' = "in_for"
    /\ UNCHANGED <<envVars, stream, sink, loc, cur, sk, arg, ret>>

\* for frame in video: next() calls read() and ends the loop on None
with_for_in ==
    /\ pc = "in_for"
    /\ op = "idle"
    /\ IF ret.kind \in {"none", "exc"}
       THEN pc' = "in_exit" /\ op' = op
       ELSE pc' = pc /\ op' = "read"
    /\ UNCHANGED <<envVars, stream, sink, loc, cur, sk, arg, ret>>

\* VideoInput.__exit__: if not self.stopped.is_set(): self.stop()
with_exit_in ==
    /\ pc = "in_exit"
    /\ op = "idle"
    /\ op' = IF stream[cur].stopped THEN "idle" ELSE "stop"
    /\ pc' = "done"
    /\ UNCHANGED <<envVars, stream, sink, loc, cur, sk, arg, ret>>

\* VideoOutput.__enter__: self.start()
with_enter_out ==
    /\ pc = "with_out"
    /\ op = "idle"
    /\ op' = "kstart"
    /\ pc' = "out_for"
    /\ UNCHANGED <<envVars, stream, sink, loc, cur, sk, arg, ret>>

\* for frame in [...]: video.write(frame); an exception leaves the block
with_for_out ==
    /\ pc = "out_for"
    /\ op = "idle"
    /\ IF ret.kind = "exc" \/ arg.idx >= loc.nwrites
       THEN pc' = "out_exit" /\ op' = op /\ arg' = arg
       ELSE pc' = pc /\ op' = "write" /\ arg' = ClientFrame(arg.idx + 1)
    /\ UNCHANGED <<envVars, stream, sink, loc, cur, sk, ret>>

\* VideoOutput.__exit__: self.stop()
with_exit_out ==
    /\ pc = "out_exit"
    /\ op = "idle"
    /\ op' = "kstop"
    /\ pc' = "done"
    /\ UNCHANGED <<envVars, stream, sink, loc, cur, sk, arg, ret>>

(***************************************************************************)
(* Long runs: a with-block over a file, and one over a list of frames,     *)
(* that outnumber a queue's slots                                          *)
(***************************************************************************)
VideoLong == [length |-> QueueMax + 2, fps |-> 1, width |-> 2, height |-> 2]

InitLong ==
    /\ options = NoOptions
    /\ crops = <<>>
    /\ op = "idle"
    /\ cur = 1
    /\ sk = <<1, 1>>
    /\ arg = ClientFrame(0)
    /\ ret = Ok
    /\ \/ /\ OneStream(VideoLong, {NoTime}, {NoTime})
          /\ sink = [s \in SinkIds |-> NoObject]
          /\ loc = [nwrites |-> 0]
          /\ pc = "with_in"
       \/ /\ video = [i \in Streams |-> NoVideo]
          /\ seek = [i \in Streams |-> TRUE]
          /\ stream = [i \in Streams |-> NoObject]
          /\ sink = [s \in SinkIds |->
                       IF s = <<1, 1>> THEN NewSink(FALSE, 0, 0, 2, 2) ELSE NoObject]
          /\ loc = [nwrites |-> QueueMax + 1]
          /\ pc = "with_out"

NextLong ==
    \/ Workers
    \/ read
    \/ stream_start
    \/ write
    \/ sink_start
    \/ sink_stop_set
    \/ sink_stop_join
    \/ with_enter_in
    \/ with_for_in
    \/ with_exit_in
    \/ with_enter_out
    \/ with_for_out
    \/ with_exit_out

SpecLong == InitLong /\ [][NextLong]_vars

(***************************************************************************)
(* A VideoCropper in a with-block, fed whole images of one size, its        *)
(* rectangle inside the image                                              *)
(***************************************************************************)
\* the largest side of a small image
MaxSide == 3

\* the sizes of the images: small ones, and the 100 x 100 image
Images ==
    [length : {0}, fps : {1}, width : 2..MaxSide, height : 2..MaxSide]
    \cup {[length |-> 0, fps |-> 1, width |-> 100, height |-> 100]}

\* the rectangles inside an image: all of them in a small image, and
\* (10, 10, 50, 50) in the 100 x 100 image
Rectangles(v) ==
    IF v.width > MaxSide
    THEN {[x |-> 10, y |-> 10, w |-> 50, h |-> 50]}
    ELSE {r \in [x : 0..(v.width - 1), y : 0..(v.height - 1),
                 w : 1..v.width, h : 1..v.height] :
             r.x + r.w <= v.width /\ r.y + r.h <= v.height}

InitCrop ==
    /\ options = NoOptions
    /\ crops = <<>>
    /\ op = "idle"
    /\ cur = 1
    /\ sk = <<1, 1>>
    /\ ret = Ok
    /\ seek = [i \in Streams |-> TRUE]
    /\ stream = [i \in Streams |-> NoObject]
    /\ \E v \in Images :
          /\ video = [i \in Streams |-> IF i = 1 THEN v ELSE NoVideo]
          /\ \E r \in Rectangles(v) :
                sink = [s \in SinkIds |->
                          IF s = <<1, 1>> THEN NewSink(TRUE, r.x, r.y, r.w, r.h)
                          ELSE NoObject]
    /\ arg = Frame(1, 0)
    /\ loc \in [nwrites : 1..2]
    /\ pc = "with_out"

\* for frame in [...]: video.write(frame), the frames being whole images
with_for_image ==
    /\ pc = "out_for"
    /\ op = "idle"
    /\ IF ret.kind = "exc" \/ arg.idx >= loc.nwrites
       THEN pc' = "out_exit" /\ op' = op /\ arg' = arg
       ELSE pc' = pc /\ op' = "write" /\ arg' = Frame(1, arg.idx + 1)
    /\ UNCHANGED <<envVars, stream, sink, loc, cur, sk, ret>>

NextCrop ==
    \/ \E s \in SinkIds : writer(s)
    \/ write
    \/ sink_start
    \/ sink_stop_set
    \/ sink_stop_join
    \/ with_enter_out
    \/ with_for_image
    \/ with_exit_out

SpecCrop == InitCrop /\ [][NextCrop]_vars

(***************************************************************************)
(* TimeStamp and VideoTime as texts and objects: a text "H:MM:SS.mmm" is    *)
(* <<H, MM, the seconds field in ms>>, an object's seconds are the exact   *)
(* fraction num / den (hours and minutes are seconds / 3600 and / 60)      *)
(***************************************************************************)
\* faulty variant: the seconds field printed with two decimals
RoundCs(num, den) ==
    LET q == (100 * num) \div den
        r == (100 * num) % den
    IN  10 * (IF 2 * r > den \/ (2 * r = den /\ q % 2 = 1) THEN q + 1 ELSE q)

\* "{:02.3f}".format(seconds) of line 299: num / den seconds printed with
\* three decimals, an exact tie going to the even digit
RoundMs(num, den) ==
    LET q == (1000 * num) \div den
        r == (1000 * num) % den
    IN  IF 2 * r > den \/ (2 * r = den /\ q % 2 = 1) THEN q + 1 ELSE q

\* TimeStamp.__init__ on a text, lines 290-293
TimeStamp_init(e) ==
    [num |-> (e[1] * 3600 + e[2] * 60) * 1000 + e[3], den |-> 1000]

\* TimeStamp.__str__, lines 295-299 (VideoTime.__str__ appends the fps, which
\* TimeStamp.__init__ cuts off again at line 286)
TimeStamp_str(t) ==
    LET hours == IntOf(t.num, t.den * 3600)
        minutes == IntOf(t.num, t.den * 60) - hours * 60
        seconds == t.num - (hours * 3600 + minutes * 60) * t.den
    IN  <<hours, minutes, RoundMs(seconds, t.den)>>

\* frame_videotime as an object: seconds = frame_number / float(fps)
FrameTime(n, fps) == [num |-> n, den |-> fps, fps |-> fps, frame_number |-> n]

\* VideoTime.__init__ on a VideoTime object: its text is parsed again
VideoTimeOf(t, fps) == VideoTime(TimeStamp_init(TimeStamp_str(t)).num, fps)

\* the frame numbers, frame rates and texts the conversions are applied to
MaxIdx == 30
MaxHours == 2

FrameRates == {1, 2, 3, 16, 25}

Texts ==
    {<<h, m, s>> : h \in 0..MaxHours, m \in {0, 1, 59},
                   s \in {0, 1, 4, 500, 999, 1000, 3004, 59000, 59999}}

InitTime ==
    /\ options = NoOptions
    /\ crops = <<>>
    /\ op = "idle"
    /\ cur = 1
    /\ sk = <<1, 1>>
    /\ arg = ClientFrame(0)
    /\ ret = Ok
    /\ video = [i \in Streams |-> NoVideo]
    /\ seek = [i \in Streams |-> TRUE]
    /\ stream = [i \in Streams |-> NoObject]
    /\ sink = [s \in SinkIds |-> NoObject]
    /\ \/ pc = "frame" /\ loc \in [idx : 1..MaxIdx, fps : FrameRates]
       \/ pc = "text" /\ loc \in [text : Texts]

\* VideoTime(frame_videotime(idx, fps), fps)
frame_round_trip ==
    /\ pc = "frame"
    /\ pc' = "converted"
    /\ ret' = [kind |-> "videotime",
               time |-> VideoTimeOf(FrameTime(loc.idx, loc.fps), loc.fps)]
    /\ UNCHANGED <<envVars, stream, sink, loc, op, cur, sk, arg>>

\* TimeStamp(str(TimeStamp(text)))
text_round_trip ==
    /\ pc = "text"
    /\ pc' = "reparsed"
    /\ ret' = [kind |-> "timestamp",
               first |-> TimeStamp_init(loc.text),
               text |-> TimeStamp_str(TimeStamp_init(loc.text)),
               second |-> TimeStamp_init(TimeStamp_str(TimeStamp_init(loc.text)))]
    /\ UNCHANGED <<envVars, stream, sink, loc, op, cur, sk, arg>>

NextTime ==
    \/ frame_round_trip
    \/ text_round_trip

SpecTime == InitTime /\ [][NextTime]_vars

(***************************************************************************)
(* Arithmetic on TimeStamp and VideoTime objects: an object is its class,   *)
(* its seconds as the fraction num / den and, for a VideoTime, fps and      *)
(* frame_number                                                            *)
(***************************************************************************)
\* TimeStamp(text) and VideoTime(text, fps) as objects
TimeStampObject(e) ==
    [cls |-> "TimeStamp", num |-> TimeStamp_init(e).num, den |-> 1000]

VideoTimeObject(v) ==
    [cls |-> "VideoTime", num |-> v.seconds, den |-> 1000,
     fps |-> v.fps, frame_number |-> v.frame_number]

\* frame_videotime(n, fps) as an object
FrameTimeObject(n, fps) ==
    [cls |-> "VideoTime", num |-> n, den |-> fps,
     fps |-> fps, frame_number |-> n]

\* self.seconds + x.seconds and self.seconds - x.seconds
SumOf(a, b) ==
    IF a.den = b.den THEN [num |-> a.num + b.num, den |-> a.den]
    ELSE [num |-> a.num * b.den + b.num * a.den, den |-> a.den * b.den]

DifferenceOf(a, b) ==
    IF a.den = b.den THEN [num |-> a.num - b.num, den |-> a.den]
    ELSE [num |-> a.num * b.den - b.num * a.den, den |-> a.den * b.den]

\* seconds_timestamp, lines 368-376: the text "hours:minutes:seconds" of a
\* number of seconds, its last field printed in full, parsed by TimeStamp
seconds_timestamp(s) ==
    LET hours == IntOf(s.num, s.den * 3600)
        minutes == IntOf(s.num, s.den * 60) - hours * 60
        seconds == s.num - (hours * 3600 + minutes * 60) * s.den
    IN  [cls |-> "TimeStamp",
         num |-> (hours * 3600 + minutes * 60) * s.den + seconds, den |-> s.den]

Value(v) == [kind |-> "value", value |-> v]
Exception(e) == [kind |-> "exc", exc |-> e]

\* faulty variant: _compatible without the test of the frame rates
VideoTime_compatible_any_rate(a, b) ==
    IF a.cls # b.cls THEN "TypeError" ELSE "ok"

\* VideoTime._compatible, lines 341-348
VideoTime_compatible(a, b) ==
    IF a.cls # b.cls THEN "TypeError"
    ELSE IF a.fps # b.fps THEN "ValueError"
    ELSE "ok"

\* TimeStamp._compatible, lines 309-313
TimeStamp_compatible(a, b) == IF a.cls # b.cls THEN "TypeError" ELSE "ok"

\* __add__ and __sub__ of the class of a, on the seconds s of the result
Arithmetic(a, b, s) ==
    IF a.cls = "VideoTime"
    THEN IF VideoTime_compatible(a, b) # "ok"
         THEN Exception(VideoTime_compatible(a, b))
         ELSE Value(VideoTimeObject(VideoTimeOf(seconds_timestamp(s), a.fps)))
    ELSE IF TimeStamp_compatible(a, b) # "ok"
         THEN Exception(TimeStamp_compatible(a, b))
         ELSE Value(seconds_timestamp(s))

\* the operands: objects made from texts, from frame numbers, and (once)
\* from a result
MaxArithIdx == 3

ArithTexts == {<<0, 0, 0>>, <<0, 0, 500>>, <<0, 0, 1000>>, <<0, 1, 2500>>}

ArithRates == {1, 3, 25}

Operands ==
    {TimeStampObject(e) : e \in ArithTexts}
    \cup {VideoTimeObject(VideoTime(TimeStamp_init(e).num, f)) :
             e \in ArithTexts, f \in ArithRates}
    \cup {FrameTimeObject(n, f) : n \in 1..MaxArithIdx, f \in ArithRates}

InitArith ==
    /\ options = NoOptions
    /\ crops = <<>>
    /\ op = "idle"
    /\ cur = 1
    /\ sk = <<1, 1>>
    /\ arg = ClientFrame(0)
    /\ ret = Ok
    /\ video = [i \in Streams |-> NoVideo]
    /\ seek = [i \in Streams |-> TRUE]
    /\ stream = [i \in Streams |-> NoObject]
    /\ sink = [s \in SinkIds |-> NoObject]
    /\ pc = "operands"
    /\ loc \in [a : Operands, b : Operands, results : {0}]

\* faulty variant: an addition that stores the sum in its left operand
time_add_in_place ==
    /\ pc = "operands"
    /\ pc' = "added"
    /\ ret' = Arithmetic(loc.a, loc.b, SumOf(loc.a, loc.b))
    /\ loc' = IF ret'.kind = "value" THEN [loc EXCEPT !.a = ret'.value] ELSE loc
    /\ UNCHANGED <<envVars, stream, sink, op, cur, sk, arg>>

\* a + b
time_add ==
    /\ pc = "operands"
    /\ pc' = "added"
    /\ ret' = Arithmetic(loc.a, loc.b, SumOf(loc.a, loc.b))
    /\ UNCHANGED <<envVars, stream, sink, loc, op, cur, sk, arg>>

\* a - b
time_sub ==
    /\ pc = "operands"
    /\ pc' = "subtracted"
    /\ ret' = Arithmetic(loc.a, loc.b, DifferenceOf(loc.a, loc.b))
    /\ UNCHANGED <<envVars, stream, sink, loc, op, cur, sk, arg>>

\* the result becomes the left operand of one more operation
time_again ==
    /\ pc \in {"added", "subtracted"}
    /\ ret.kind = "value"
    /\ loc.results = 0
    /\ pc' = "operands"
    /\ loc' = [loc EXCEPT !.a = ret.value, !.results = 1]
    /\ ret' = Ok
    /\ UNCHANGED <<envVars, stream, sink, op, cur, sk, arg>>

NextArith ==
    \/ time_add
    \/ time_sub
    \/ time_again

SpecArith == InitArith /\ [][NextArith]_vars

(***************************************************************************)
(* TimeStamp.__init__ on any text: the text is the list of its fields       *)
(* between colons, a field being a number (in ms), a word, nothing, or one *)
(* of the names float() reads as not-a-number and infinity                 *)
(***************************************************************************)
MaxFields == 4

Fields ==
    {[kind |-> "number", ms |-> 0], [kind |-> "number", ms |-> 1500],
     [kind |-> "word"], [kind |-> "empty"], [kind |-> "nan"], [kind |-> "inf"]}

FieldTexts == UNION {[1..n -> Fields] : n \in 1..MaxFields}

\* float(field): a ValueError for a word and for an empty field
FloatFails(f) == f.kind \in {"word", "empty"}

\* hours * 3600 + minutes * 60 + seconds in float arithmetic
FloatSeconds(e) ==
    IF \E n \in 1..3 : e[n].kind = "nan" THEN [kind |-> "nan"]
    ELSE IF \E n \in 1..3 : e[n].kind = "inf" THEN [kind |-> "inf"]
    ELSE [kind |-> "number",
          ms |-> e[1].ms * 3600 + e[2].ms * 60 + e[3].ms]

\* TimeStamp.__init__, line 290: hours, minutes, seconds =
\* map(float, e.split(":")), then lines 291-293
TimeStamp_parse(e) ==
    IF \E n \in 1..Len(e) : FloatFails(e[n]) THEN Exception("ValueError")
    ELSE IF Len(e) # 3 THEN Exception("ValueError")
    ELSE Value([cls |-> "TimeStamp", seconds |-> FloatSeconds(e)])

InitParse ==
    /\ options = NoOptions
    /\ crops = <<>>
    /\ op = "idle"
    /\ cur = 1
    /\ sk = <<1, 1>>
    /\ arg = ClientFrame(0)
    /\ ret = Ok
    /\ video = [i \in Streams |-> NoVideo]
    /\ seek = [i \in Streams |-> TRUE]
    /\ stream = [i \in Streams |-> NoObject]
    /\ sink = [s \in SinkIds |-> NoObject]
    /\ pc = "text"
    /\ loc \in [text : FieldTexts]

\* TimeStamp(text)
parse_text ==
    /\ pc = "text"
    /\ pc' = "parsed"
    /\ ret' = TimeStamp_parse(loc.text)
    /\ UNCHANGED <<envVars, stream, sink, loc, op, cur, sk, arg>>

NextParse == parse_text

SpecParse == InitParse /\ [][NextParse]_vars

(***************************************************************************)
(* scripts/video_crop.py: main, from the try of line 133 to the return     *)
(***************************************************************************)
\* the positions of main inside the try block
TryPcs == {"build", "start", "files", "sstart", "next", "got", "rstop", "write"}

\* main is at p, between two calls, with no exception pending
MainAt(p) == pc = p /\ op = "idle" /\ ret.kind # "exc"

\* the group get_croppers_array is building: part1_ before j is set, else part<j>_
Building(l) == IF l.j = 0 THEN 1 ELSE l.j

NCrops == Len(crops)

\* faulty variant: the split test with > for >=
SplitPassed(elapsed, splits) == splits # <<>> /\ elapsed > splits[1]

\* lines 158-159: options['splits'] and elapsed_seconds >= options['splits'][0].seconds
SplitReached(elapsed, splits) == splits # <<>> /\ elapsed >= splits[1]

\* get_croppers_array (lines 92-101) called at lines 137 and 163: one
\* VideoCropper per crop, then croppers is bound (and j = 1 at line 142, or
\* the split is dropped at line 168)
main_build ==
    /\ MainAt("build")
    /\ IF loc.k <= NCrops
       THEN /\ sink' = [sink EXCEPT ![<<Building(loc), loc.k>>] =
                          NewSink(TRUE, crops[loc.k].x, crops[loc.k].y,
                                  crops[loc.k].w, crops[loc.k].h)]
            /\ loc' = [loc EXCEPT !.k = @ + 1]
            /\ pc' = pc
       ELSE /\ loc' = [loc EXCEPT !.croppers = Building(loc), !.j = Building(loc),
                                  !.k = 1,
                                  !.splits = IF loc.j = 0 THEN @ ELSE Tail(@)]
            /\ pc' = "start"
            /\ UNCHANGED sink
    /\ UNCHANGED <<envVars, stream, callVars>>

\* faulty variant: after a rotation main goes on to the next frame
main_start_next ==
    /\ MainAt("start")
    /\ IF loc.k <= NCrops
       THEN /\ op' = "kstart"
            /\ sk' = <<loc.croppers, loc.k>>
            /\ loc' = [loc EXCEPT !.k = @ + 1]
            /\ pc' = pc
       ELSE /\ IF loc.i = 0
               THEN /\ loc' = [loc EXCEPT !.k = 1, !.i = 1,
                                 !.elapsed_seconds = options.start]
                    /\ pc' = "files"
               ELSE /\ loc' = [loc EXCEPT !.k = 1]
                    /\ pc' = "next"
            /\ UNCHANGED <<op, sk>>
    /\ UNCHANGED <<envVars, stream, sink, cur, arg, ret>>

\* lines 145 and 171: map(lambda cropper: cropper.start(), croppers); after
\* the first group, lines 148-151 enter the loop over the input files
main_start ==
    /\ MainAt("start")
    /\ IF loc.k <= NCrops
       THEN /\ op' = "kstart"
            /\ sk' = <<loc.croppers, loc.k>>
            /\ loc' = [loc EXCEPT !.k = @ + 1]
            /\ pc' = pc
       ELSE /\ IF loc.i = 0
               THEN /\ loc' = [loc EXCEPT !.k = 1, !.i = 1,
                                 !.elapsed_seconds = options.start]
                    /\ pc' = "files"
               ELSE /\ loc' = [loc EXCEPT !.k = 1]
                    /\ pc' = "write"
            /\ UNCHANGED <<op, sk>>
    /\ UNCHANGED <<envVars, stream, sink, cur, arg, ret>>

\* VideoStream.__init__ on a file that cv2 cannot open: fps is 0.0, and
\* set_end(None) divides by it in frame_videotime (blunt.py line 385)
Unopened(v, end) == v.fps = 0 /\ end = NoTime

\* faulty variant: elapsed_seconds starts again at each input file
main_files_reset ==
    /\ MainAt("files")
    /\ LET end == IF loc.i = options.n THEN options.end ELSE NoTime
       IN  IF loc.i > options.n
           THEN /\ loc' = [loc EXCEPT !.k = 1]
                /\ pc' = "finally"
                /\ UNCHANGED <<stream, ret>>
           ELSE IF Unopened(video[loc.i], end)
           THEN /\ ret' = [kind |-> "exc", exc |-> "ZeroDivisionError"]
                /\ UNCHANGED <<stream, loc, pc>>
           ELSE /\ stream' = [stream EXCEPT ![loc.i] =
                      NewStream(loc.i,
                                IF loc.i = 1 THEN options.start ELSE NoTime,
                                end)]
                /\ loc' = [loc EXCEPT !.stream = loc.i,
                                      !.elapsed_seconds = options.start]
                /\ pc' = "sstart"
                /\ UNCHANGED ret
    /\ UNCHANGED <<envVars, sink, op, cur, sk, arg>>

\* lines 151-154: the next input file is opened, or the loop ends
main_files ==
    /\ MainAt("files")
    /\ LET end == IF loc.i = options.n THEN options.end ELSE NoTime
       IN  IF loc.i > options.n
           THEN /\ loc' = [loc EXCEPT !.k = 1]
                /\ pc' = "finally"
                /\ UNCHANGED <<stream, ret>>
           ELSE IF Unopened(video[loc.i], end)
           THEN /\ ret' = [kind |-> "exc", exc |-> "ZeroDivisionError"]
                /\ UNCHANGED <<stream, loc, pc>>
           ELSE /\ stream' = [stream EXCEPT ![loc.i] =
                      NewStream(loc.i,
                                IF loc.i = 1 THEN options.start ELSE NoTime,
                                end)]
                /\ loc' = [loc EXCEPT !.stream = loc.i]
                /\ pc' = "sstart"
                /\ UNCHANGED ret
    /\ UNCHANGED <<envVars, sink, op, cur, sk, arg>>

\* line 155: stream.start()
main_sstart ==
    /\ MainAt("sstart")
    /\ op' = "start"
    /\ cur' = loc.stream
    /\ pc' = "next"
    /\ UNCHANGED <<envVars, stream, sink, loc, sk, arg, ret>>

\* line 156: for frame in stream, which is VideoStream.next (lines 92-96)
main_next ==
    /\ MainAt("next")
    /\ op' = "read"
    /\ cur' = loc.stream
    /\ pc' = "got"
    /\ UNCHANGED <<envVars, stream, sink, loc, sk, arg, ret>>

\* lines 156-159: None ends the loop over this file; a frame adds 1 / fps to
\* elapsed_seconds and is tested against the next split
main_got ==
    /\ MainAt("got")
    /\ IF ret.kind = "none"
       THEN /\ loc' = [loc EXCEPT !.i = @ + 1]
            /\ pc' = "files"
       ELSE LET e == loc.elapsed_seconds + (1000 \div stream[loc.stream].fps)
            IN  /\ loc' = [loc EXCEPT !.elapsed_seconds = e, !.frame = ret.frame,
                                      !.k = 1,
                                      !.log = Append(@, [frame |-> ret.frame,
                                                         elapsed |-> e])]
                /\ pc' = IF SplitReached(e, loc.splits) THEN "rstop" ELSE "write"
    /\ UNCHANGED <<envVars, stream, sink, callVars>>

\* faulty variant: a rotation that keeps the part number
main_rstop_same_part ==
    /\ MainAt("rstop")
    /\ IF loc.k <= NCrops
       THEN /\ op' = "kstop"
            /\ sk' = <<loc.croppers, loc.k>>
            /\ loc' = [loc EXCEPT !.k = @ + 1]
            /\ pc' = pc
       ELSE /\ loc' = [loc EXCEPT !.k = 1]
            /\ pc' = "build"
            /\ UNCHANGED <<op, sk>>
    /\ UNCHANGED <<envVars, stream, sink, cur, arg, ret>>

\* lines 160-162: map(lambda cropper: cropper.stop(), croppers); j += 1
main_rstop ==
    /\ MainAt("rstop")
    /\ IF loc.k <= NCrops
       THEN /\ op' = "kstop"
            /\ sk' = <<loc.croppers, loc.k>>
            /\ loc' = [loc EXCEPT !.k = @ + 1]
            /\ pc' = pc
       ELSE /\ loc' = [loc EXCEPT !.k = 1, !.j = @ + 1]
            /\ pc' = "build"
            /\ UNCHANGED <<op, sk>>
    /\ UNCHANGED <<envVars, stream, sink, cur, arg, ret>>

\* line 172: map(lambda cropper: cropper.write(frame), croppers)
main_write ==
    /\ MainAt("write")
    /\ IF loc.k <= NCrops
       THEN /\ op' = "write"
            /\ sk' = <<loc.croppers, loc.k>>
            /\ arg' = loc.frame
            /\ loc' = [loc EXCEPT !.k = @ + 1]
            /\ pc' = pc
       ELSE /\ loc' = [loc EXCEPT !.k = 1]
            /\ pc' = "next"
            /\ UNCHANGED <<op, sk, arg>>
    /\ UNCHANGED <<envVars, stream, sink, cur, ret>>

\* an exception raised by a call inside the try block reaches the finally
main_except ==
    /\ pc \in TryPcs
    /\ op = "idle"
    /\ ret.kind = "exc"
    /\ pc' = "finally"
    /\ ret' = Ok
    /\ loc' = [loc EXCEPT !.k = 1, !.failed = TRUE]
    /\ UNCHANGED <<envVars, stream, sink, op, cur, sk, arg>>

\* a KeyboardInterrupt in the main thread, anywhere inside the try block
main_interrupt ==
    /\ pc \in TryPcs
    /\ ~loc.failed
    /\ pc' = "finally"
    /\ op' = "idle"
    /\ ret' = Ok
    /\ loc' = [loc EXCEPT !.k = 1, !.failed = TRUE, !.interrupted = TRUE]
    /\ UNCHANGED <<envVars, stream, sink, cur, sk, arg>>

\* line 174: map(lambda cropper: cropper.stop(), croppers); an exception of
\* stop(), or croppers not being bound (NameError), ends main
main_finally ==
    /\ pc = "finally"
    /\ op = "idle"
    /\ IF ret.kind = "exc" \/ loc.croppers = 0
       THEN /\ pc' = "raised"
            /\ UNCHANGED <<loc, op, sk>>
       ELSE IF loc.k <= NCrops
       THEN /\ op' = "kstop"
            /\ sk' = <<loc.croppers, loc.k>>
            /\ loc' = [loc EXCEPT !.k = @ + 1]
            /\ pc' = pc
       ELSE /\ pc' = "fstream"
            /\ UNCHANGED <<loc, op, sk>>
    /\ UNCHANGED <<envVars, stream, sink, cur, arg, ret>>

\* line 175: if stream.running(): stream.stop(); stream not being bound is
\* a NameError
main_fstream ==
    /\ pc = "fstream"
    /\ op = "idle"
    /\ IF loc.stream = 0
       THEN pc' = "raised" /\ UNCHANGED <<op, cur>>
       ELSE IF running(stream[loc.stream])
       THEN pc' = "return" /\ op' = "stop" /\ cur' = loc.stream
       ELSE pc' = "return" /\ UNCHANGED <<op, cur>>
    /\ UNCHANGED <<envVars, stream, sink, loc, sk, arg, ret>>

\* line 178: return 0, unless an exception is on its way out of main
main_return ==
    /\ pc = "return"
    /\ op = "idle"
    /\ pc' = IF ret.kind = "exc" \/ loc.failed THEN "raised" ELSE "returned"
    /\ UNCHANGED <<envVars, stream, sink, loc, callVars>>

main ==
    \/ main_build
    \/ main_start
    \/ main_files
    \/ main_sstart
    \/ main_next
    \/ main_got
    \/ main_rstop
    \/ main_write
    \/ main_except
    \/ main_interrupt
    \/ main_finally
    \/ main_fstream
    \/ main_return

\* the command lines of the model: the input files, --start, --end and
\* --splits, and the crop table (one or two crops of the 2 x 2 image)
Video3 == [length |-> 3, fps |-> 2, width |-> 2, height |-> 2]
Video2 == [length |-> 2, fps |-> 1, width |-> 2, height |-> 2]
NotAVideo == [length |-> 0, fps |-> 0, width |-> 0, height |-> 0]

OneCrop == <<[x |-> 0, y |-> 0, w |-> 1, h |-> 1]>>
TwoCrops == <<[x |-> 0, y |-> 0, w |-> 1, h |-> 1], [x |-> 1, y |-> 1, w |-> 1, h |-> 1]>>

OrchSplits == {<<>>, <<250>>, <<500>>, <<1000>>, <<1500>>, <<500, 1000>>, <<1000, 1000>>}

CommandLines ==
    [files : {<<>>}, start : {0}, end : {NoTime}, splits : {<<>>},
     crops : {OneCrop}]
    \cup [files : {<<Video3>>}, start : {0, 500}, end : {NoTime},
          splits : OrchSplits, crops : {OneCrop}]
    \cup [files : {<<Video3>>}, start : {0}, end : {NoTime, 500},
          splits : {<<1000>>}, crops : {TwoCrops}]
    \cup [files : {<<Video2, Video3>>}, start : {0}, end : {NoTime},
          splits : {<<>>, <<1500>>}, crops : {OneCrop}]
    \cup [files : {<<NotAVideo>>, <<Video2, NotAVideo>>}, start : {0},
          end : {NoTime}, splits : {<<>>}, crops : {OneCrop}]

InitOrch ==
    /\ \E c \in CommandLines :
          /\ video = [i \in Streams |->
                        IF i <= Len(c.files) THEN c.files[i] ELSE NoVideo]
          /\ options = [n |-> Len(c.files), start |-> c.start, end |-> c.end,
                        splits |-> c.splits]
          /\ crops = c.crops
    /\ seek = [i \in Streams |-> TRUE]
    /\ stream = [i \in Streams |-> NoObject]
    /\ sink = [s \in SinkIds |-> NoObject]
    /\ pc = "build"
    /\ loc = [croppers |-> 0, j |-> 0, k |-> 1, i |-> 0, stream |-> 0,
              elapsed_seconds |-> 0, splits |-> options.splits,
              frame |-> ClientFrame(0), log |-> <<>>,
              failed |-> FALSE, interrupted |-> FALSE]
    /\ op = "idle"
    /\ cur = 1
    /\ sk = <<1, 1>>
    /\ arg = ClientFrame(0)
    /\ ret = Ok

NextOrch ==
    \/ Workers
    \/ Calls
    \/ main

SpecOrch == InitOrch /\ [][NextOrch]_vars

(***************************************************************************)
(* The window of one VideoStream: a client that sets the beginning and the *)
(* end before it starts the stream, and asks in_range() at any time        *)
(***************************************************************************)
range_client ==
    /\ pc = "client"
    /\ op = "idle"
    /\ stream[cur].t # "none"
    /\ op' \in IF stream[cur].t = "new"
               THEN {"start", "in_range", "set_beginning", "set_end"}
               ELSE {"in_range"}
    /\ UNCHANGED <<envVars, stream, sink, mainVars, cur, sk, arg, ret>>

\* VideoStream.set_beginning, lines 98-102: the new beginning, and a seek of
\* the camera that takes effect or not
range_set_beginning ==
    /\ op = "set_beginning"
    /\ \E ts \in HalfSecs :
          LET s == stream[cur]
              b == set_beginning(ts, s.fps)
          IN  Upd(cur, [s EXCEPT !.beginning = b,
                                 !.camera.pos = IF seek[cur]
                                                THEN b.frame_number ELSE @])
    /\ Returned(NoneRet)
    /\ UNCHANGED <<envVars, sink, mainVars, cur, sk, arg>>

\* VideoStream.set_end, lines 104-108
range_set_end ==
    /\ op = "set_end"
    /\ \E ts \in HalfSecs :
          LET s == stream[cur]
          IN  Upd(cur, [s EXCEPT !.end = set_end(ts, s.length, s.fps)])
    /\ Returned(NoneRet)
    /\ UNCHANGED <<envVars, sink, mainVars, cur, sk, arg>>

\* VideoStream.in_range, lines 136-137
range_in_range ==
    /\ op = "in_range"
    /\ Returned(Value(in_range(stream[cur])))
    /\ UNCHANGED <<envVars, stream, sink, mainVars, cur, sk, arg>>

NextRange ==
    \/ \E i \in Streams : reader(i)
    \/ stream_start
    \/ range_client
    \/ range_set_beginning
    \/ range_set_end
    \/ range_in_range

SpecRange == InitSource /\ [][NextRange]_vars

(***************************************************************************)
(* One sink used by two threads: a producer that starts it and writes a    *)
(* list of frames, and a timer thread that calls stop() on it at any time  *)
(* after the start                                                         *)
(***************************************************************************)
InitRace ==
    /\ video = [i \in Streams |-> NoVideo]
    /\ seek = [i \in Streams |-> TRUE]
    /\ stream = [i \in Streams |-> NoObject]
    /\ sink = [s \in SinkIds |->
                 IF s = <<1, 1>> THEN NewSink(FALSE, 0, 0, 2, 2) ELSE NoObject]
    /\ loc \in [nwrites : {MaxWrites, QueueMax + 1}]
    /\ options = NoOptions
    /\ crops = <<>>
    /\ pc = "timer_wait"
    /\ op = "idle"
    /\ cur = 1
    /\ sk = <<1, 1>>
    /\ arg = ClientFrame(0)
    /\ ret = Ok

\* the producer calls start()
race_start ==
    /\ op = "idle"
    /\ sink[sk].t = "new"
    /\ op' = "kstart"
    /\ UNCHANGED <<envVars, stream, sink, mainVars, cur, sk, arg, ret>>

\* the producer calls write() with its next frame, until a call raises
race_write ==
    /\ op = "idle"
    /\ sink[sk].t # "new"
    /\ ret.kind # "exc"
    /\ arg.idx < loc.nwrites
    /\ arg' = ClientFrame(arg.idx + 1)
    /\ op' = "write"
    /\ UNCHANGED <<envVars, stream, sink, mainVars, cur, sk, ret>>

\* VideoWriter.stop in the timer thread, line 221: self.stopped.set()
timer_stop_set ==
    /\ pc = "timer_wait"
    /\ sink[sk].t # "new"
    /\ LET k == sink[sk]
       IN  UpdK(sk, [k EXCEPT !.stopped = TRUE, !.stopcalls = 1,
                                  !.startedAtStop = TRUE])
    /\ pc' = "timer_join"
    /\ UNCHANGED <<envVars, stream, loc, callVars>>

\* VideoWriter.stop in the timer thread, line 222: self.t.join()
timer_stop_join ==
    /\ pc = "timer_join"
    /\ sink[sk].t # "alive"
    /\ UpdK(sk, [sink[sk] EXCEPT !.stoprets = 1])
    /\ pc' = "timer_done"
    /\ UNCHANGED <<envVars, stream, loc, callVars>>

NextRace ==
    \/ \E s \in SinkIds : writer(s)
    \/ sink_start
    \/ write
    \/ race_start
    \/ race_write
    \/ timer_stop_set
    \/ timer_stop_join

\* the writer thread and the producer are scheduled; the timer may fire or not
RaceFair == WriterFair /\ WF_vars(sink_start) /\ WF_vars(write)
SpecRace == InitRace /\ [][NextRace]_vars /\ RaceFair

(***************************************************************************)
(* A VideoInput with-block over a small file, whose body may raise          *)
(***************************************************************************)
InitWith ==
    /\ \E v \in SmallVideos : OneStream(v, HalfSecs, HalfSecs)
    /\ sink = [s \in SinkIds |-> NoObject]
    /\ loc = [nwrites |-> 0]
    /\ options = NoOptions
    /\ crops = <<>>
    /\ pc = "with_in"
    /\ op = "idle"
    /\ cur = 1
    /\ sk = <<1, 1>>
    /\ arg = ClientFrame(0)
    /\ ret = Ok

\* the body of the with-block raises: the block is left through __exit__
with_body_raises ==
    /\ pc = "in_for"
    /\ op = "idle"
    /\ ret.kind = "frame"
    /\ pc' = "in_exit"
    /\ ret' = [kind |-> "exc", exc |-> "Exception"]
    /\ UNCHANGED <<envVars, stream, sink, loc, op, cur, sk, arg>>

NextWith ==
    \/ \E i \in Streams : reader(i)
    \/ read
    \/ stream_start
    \/ stream_stop_set
    \/ stream_stop_join
    \/ with_enter_in
    \/ with_for_in
    \/ with_exit_in
    \/ with_body_raises

SpecWith == InitWith /\ [][NextWith]_vars

(***************************************************************************)
(* One VideoStream whose camera, after the seek of set_beginning, stands    *)
(* at any position up to the beginning                                      *)
(***************************************************************************)
InitSeek ==
    /\ \E v \in SmallVideos, b \in HalfSecs, e \in HalfSecs :
          /\ video = [i \in Streams |-> IF i = 1 THEN v ELSE NoVideo]
          /\ \E p0 \in 0..set_beginning(b, v.fps).frame_number :
                /\ seek = [i \in Streams |->
                             i # 1 \/ p0 = set_beginning(b, v.fps).frame_number]
                /\ stream = [i \in Streams |->
                               IF i = 1
                               THEN [NewStream(1, b, e) EXCEPT !.camera.pos = p0]
                               ELSE NoObject]
                /\ loc = [nwrites |-> 0, p0 |-> p0]
    /\ sink = [s \in SinkIds |-> NoObject]
    /\ InitClient

SpecSeek == InitSeek /\ [][Next100]_vars

(***************************************************************************)
(* scripts/fly_tube.py: fly_finder, from the list of (x, y, area) that      *)
(* centroid_and_area gives for the contours                                 *)
(***************************************************************************)
\* the largest number of contours and the largest coordinate of a centroid
MaxFlies == 3
MaxCoord == 2

FlyAreas == {1, 3}

Flies == [x : 0..MaxCoord, y : 0..MaxCoord, a : FlyAreas]

Abs(v) == IF v < 0 THEN -v ELSE v

\* round() of Python 2 on num / den >= 0: halves go away from zero
round(num, den) == (2 * num + den) \div (2 * den)

\* line 208: the Manhattan distance of two centroids
Manhattan(f, g) == Abs(f.x - g.x) + Abs(f.y - g.y)

\* the pairs (i, j) in the order of the loops of lines 212-213
FlyPairs(L) == {p \in (1..L) \X (1..L) : p[2] < p[1]}

FlyPairBefore(p, q) == p[1] < q[1] \/ (p[1] = q[1] /\ p[2] <= q[2])

\* lines 211-215: the first pair at the shortest distance; with less than two
\* flies min stays (inf, 0, 0) and the pair is the first fly with itself
Closest(flies) ==
    IF Len(flies) < 2 THEN <<1, 1>>
    ELSE CHOOSE p \in FlyPairs(Len(flies)) :
            \A q \in FlyPairs(Len(flies)) :
                \/ Manhattan(flies[p[1]], flies[p[2]])
                      < Manhattan(flies[q[1]], flies[q[2]])
                \/ /\ Manhattan(flies[p[1]], flies[p[2]])
                        = Manhattan(flies[q[1]], flies[q[2]])
                   /\ FlyPairBefore(p, q)

\* lines 218-229: the fly that replaces flies[i] and flies[j]
Merged(fi, fj) ==
    LET a == fi.a + fj.a
        dx == Abs(fi.x - fj.x)
        dy == Abs(fi.y - fj.y)
    IN  [x |-> IF fi.x < fj.x THEN round(fi.x * a + dx * fj.a, a)
                              ELSE round(fj.x * a + dx * fi.a, a),
         y |-> IF fi.y < fj.y THEN round(fi.y * a + dy * fj.a, a)
                              ELSE round(fj.y * a + dx * fi.a, a),
         a |-> a]

\* list.pop(j)
Pop(s, j) == SubSeq(s, 1, j - 1) \o SubSeq(s, j + 1, Len(s))

NoMerge == [count |-> 0]

InitFly ==
    /\ video = [i \in Streams |-> NoVideo]
    /\ seek = [i \in Streams |-> TRUE]
    /\ stream = [i \in Streams |-> NoObject]
    /\ sink = [s \in SinkIds |-> NoObject]
    /\ options = NoOptions
    /\ crops = <<>>
    /\ \E L \in 0..MaxFlies, n \in 0..MaxFlies :
          \E flies \in [1..L -> Flies] :
              loc = [flies |-> flies, n |-> n, cnts |-> L, last |-> NoMerge]
    /\ pc = "fly_loop"
    /\ op = "idle"
    /\ cur = 1
    /\ sk = <<1, 1>>
    /\ arg = ClientFrame(0)
    /\ ret = Ok

\* lines 202-230: one turn of 'while len(flies) > n'.  History: last holds
\* the number of flies before the turn, the two flies merged and the result
fly_merge ==
    /\ pc = "fly_loop"
    /\ Len(loc.flies) > loc.n
    /\ LET p == Closest(loc.flies)
           fi == loc.flies[p[1]]
           fj == loc.flies[p[2]]
           r == Merged(fi, fj)
       IN  loc' = [loc EXCEPT
                     !.flies = Pop([loc.flies EXCEPT ![p[1]] = r], p[2]),
                     !.last = [count |-> Len(loc.flies), i |-> p[1], j |-> p[2],
                               fi |-> fi, fj |-> fj, r |-> r,
                               before |-> loc.flies]]
    /\ UNCHANGED <<envVars, stream, sink, pc, callVars>>

\* line 231: return flies
fly_return ==
    /\ pc = "fly_loop"
    /\ Len(loc.flies) <= loc.n
    /\ pc' = "fly_done"
    /\ ret' = Value(loc.flies)
    /\ UNCHANGED <<envVars, stream, sink, loc, op, cur, sk, arg>>

NextFly == fly_merge \/ fly_return

SpecFly == InitFly /\ [][NextFly]_vars

(***************************************************************************)
(* Properties                                                              *)
(***************************************************************************)
Constructed(o) == o.t # "none"

ReadOps == {"read", "read_alive", "read_stopped", "read_get"}

\* C1: read() returns EndOfStream only with the worker stopped and the queue
\* empty: when the last call of a consumer that never called stop() was a
\* read() on the started stream that returned None, no frame is in the queue.
C1_EndOfStreamOnlyWhenDrained ==
    \A i \in Streams :
        LET s == stream[i]
        IN  (/\ s.t \in {"alive", "dead"}
             /\ s.stopcalls = 0
             /\ cur = i /\ op = "idle" /\ ret = NoneRet)
            => (s.stopped /\ Len(s.Q) = 0)

\* C2: over the 100-frame file at 25 frames per second, opened from 0:0:0 to
\* 0:0:2, a consumer that reads until EndOfStream (and never calls stop) has
\* been delivered exactly the 50 frames decoded at positions 1..50, in order.
C2_Scenario50Frames ==
    \A i \in Streams :
        LET s == stream[i]
        IN  (/\ Constructed(s)
             /\ video[i] = Video100
             /\ s.beginning.seconds = 0 /\ s.end.seconds = 2000
             /\ s.stopcalls = 0
             /\ s.eos # -1)
            => (/\ s.eos = 50
                /\ \A n \in 1..50 : s.got[n].idx = n)

\* C6: with the worker gone and the queue empty, a read() in progress can
\* take its next step, and that step either leaves the queue test for the
\* is_alive test or returns None: it returns EndOfStream at once, every time.
C6_ReadCanStep ==
    (/\ stream[cur].t = "dead"
     /\ stream[cur].Q = <<>>
     /\ op \in ReadOps)
    => ENABLED read

C6_ReadStep ==
    (/\ stream[cur].t = "dead"
     /\ stream[cur].Q = <<>>
     /\ op \in ReadOps)
    => \/ op = "read" /\ op' = "read_alive"
       \/ op' = "idle" /\ ret' = NoneRet

C6_EndOfStreamForever == []C6_ReadCanStep /\ [][C6_ReadStep]_vars

\* C6 witness: a second read() has returned None after the worker of a stream
\* that delivered frames had gone and the queue was empty.
C6_Witness ==
    \E i \in Streams :
        /\ stream[i].t = "dead"
        /\ stream[i].nones = 2
        /\ Len(stream[i].got) > 0
        /\ op = "idle" /\ ret = NoneRet

\* C7: a stream opened without an end, never stopped by its caller, whose
\* worker has gone and whose queue has been read empty, has delivered
\* length - beginning.frame_number + 1 frames.
C7_WholeFile ==
    \A i \in Streams :
        LET s == stream[i]
        IN  (/\ s.t = "dead"
             /\ s.end = frame_videotime(s.length, s.fps)
             /\ s.beginning.frame_number <= s.length
             /\ s.stopcalls = 0
             /\ s.Q = <<>>)
            => Len(s.got) = s.length - s.beginning.frame_number + 1

\* C3: once the encode handle of a sink that was started when stop() was
\* first called is released, every frame write() accepted before that call
\* has been passed to the handle, in order, and the queue is empty; and the
\* handle is released when stop() returns.
C3_StopEncodesAll ==
    \A s \in SinkIds :
        LET k == sink[s]
        IN  (Constructed(k) /\ k.startedAtStop)
            => /\ k.vw = "released" =>
                    (k.out = k.prestop /\ k.accepted = k.prestop /\ k.Q = <<>>)
               /\ k.stoprets >= 1 => (k.vw = "released" /\ k.t = "dead")

\* C3 witness: stop() has returned on a sink that held two or more frames in
\* its queue when stop() was called.
C3_Witness ==
    \E s \in SinkIds :
        /\ Constructed(sink[s])
        /\ sink[s].startedAtStop
        /\ sink[s].stoprets >= 1
        /\ sink[s].queuedAtStop >= 2
        /\ Len(sink[s].out) >= 2

\* C8: a queue is first in, first out: the frames read() has returned followed
\* by the frames in the stream's queue are the frames the reader put, in
\* that order; the frames encoded followed by the frames in the sink's
\* queue are the frames write() accepted, in that order.
C8_FirstInFirstOut ==
    /\ \A i \in Streams :
          Constructed(stream[i]) => stream[i].got \o stream[i].Q = stream[i].enq
    /\ \A s \in SinkIds :
          Constructed(sink[s]) => sink[s].out \o sink[s].Q = sink[s].accepted

\* C8 witness: a sink has encoded two frames with a third still queued
C8_Witness ==
    \E s \in SinkIds :
        /\ Constructed(sink[s])
        /\ Len(sink[s].out) >= 2
        /\ Len(sink[s].Q) >= 1

\* C9: no queue ever holds more than 128 frames; the reader grabs no frame
\* while its queue is full, and write() stays in its wait while the queue
\* is full.
C9_Bounded ==
    /\ \A i \in Streams : Constructed(stream[i]) => Len(stream[i].Q) <= QueueMax
    /\ \A s \in SinkIds : Constructed(sink[s]) => Len(sink[s].Q) <= QueueMax

C9_ProducerWaits ==
    /\ \A i \in Streams :
          (/\ stream[i].t = "alive"
           /\ stream'[i].camera.pos # stream[i].camera.pos)
          => Len(stream[i].Q) < QueueMax
    /\ (op = "write_full" /\ Len(sink[sk].Q) >= QueueMax) => op' = "write_full"
    /\ \A s \in SinkIds :
          (Constructed(sink[s]) /\ sink'[s].accepted # sink[s].accepted)
          => (/\ Len(sink[s].Q) < QueueMax
              /\ sink'[s].Q = Append(sink[s].Q, Enqueued(sink[s], arg)))

C9_QueueBound == []C9_Bounded /\ [][C9_ProducerWaits]_vars

\* C9 witness: the stream's queue holds 128 frames, a frame of the file is
\* still to be decoded, and the reader is at its test of Q.full()
C9_Witness ==
    \E i \in Streams :
        /\ stream[i].t = "alive"
        /\ Len(stream[i].Q) = QueueMax
        /\ stream[i].wpc = "full"
        /\ stream[i].camera.pos < stream[i].end.frame_number

\* C10: when stop() has returned on a started stream, the worker has gone and
\* the camera is released; a further stop() finds the thread gone, so its
\* join neither waits nor raises; the camera is never released twice.
C10_StopJoinsAndReleasesOnce ==
    \A i \in Streams :
        LET s == stream[i]
        IN  Constructed(s) =>
            /\ s.releases <= 1
            /\ s.stoprets >= 1 =>
                 (/\ s.t = "dead"
                  /\ s.released
                  /\ s.camera.state = "released"
                  /\ s.releases = 1
                  /\ (cur = i /\ op = "join") => ENABLED stream_stop_join)

\* C10 witness: stop() has returned twice on a stream that had delivered a
\* frame, and the camera was released once
C10_Witness ==
    \E i \in Streams :
        /\ Constructed(stream[i])
        /\ stream[i].stoprets = 2
        /\ stream[i].releases = 1
        /\ Len(stream[i].got) > 0

\* the frames main consumed from position a to position b, as crop k cuts them
Cropped(k, a, b) ==
    [n \in 1..(b - a + 1) |->
        Slice(loc.log[a + n - 1].frame,
              crops[k].x, crops[k].y, crops[k].w, crops[k].h)]

\* the position of the first consumed frame whose elapsed_seconds is at
\* least T, or one past the last frame when there is none
Boundary(T) ==
    LET hits == {n \in 1..Len(loc.log) : loc.log[n].elapsed >= T}
    IN  IF hits = {} THEN Len(loc.log) + 1
        ELSE CHOOSE n \in hits : \A m \in hits : n <= m

\* what a sink has encoded, nothing when it was never constructed
Encoded(s) == IF Constructed(sink[s]) THEN sink[s].out ELSE <<>>

\* C4: when main has returned from a run with one split time T, every crop's
\* part1_ sink has encoded exactly the frames consumed before the first frame
\* whose elapsed_seconds >= T, its part2_ sink exactly that frame and all the
\* later ones (part2_ exists if and only if there is such a frame), no third
\* group exists, and the two counts sum to the number of frames consumed.
C4_SplitInTwoGroups ==
    (pc = "returned" /\ Len(options.splits) = 1) =>
        LET N == Len(loc.log)
            b == Boundary(options.splits[1])
        IN  \A k \in 1..NCrops :
                /\ Constructed(sink[<<1, k>>])
                /\ sink[<<1, k>>].out = Cropped(k, 1, b - 1)
                /\ Constructed(sink[<<2, k>>]) <=> b <= N
                /\ Encoded(<<2, k>>) = Cropped(k, b, N)
                /\ ~Constructed(sink[<<3, k>>])
                /\ Len(Encoded(<<1, k>>)) + Len(Encoded(<<2, k>>)) = N

\* C4 witness: main has returned from a run with one split and two crops, and
\* both groups of both crops have encoded a frame
C4_Witness ==
    /\ pc = "returned"
    /\ Len(options.splits) = 1
    /\ NCrops = 2
    /\ \A k \in 1..NCrops :
          /\ Constructed(sink[<<1, k>>]) /\ Len(sink[<<1, k>>].out) > 0
          /\ Constructed(sink[<<2, k>>]) /\ Len(sink[<<2, k>>].out) > 0

\* C5: when main has ended, by return or by an exception, every sink that was
\* constructed has its encode handle released and every stream that was
\* constructed has been stopped.
C5_CleanupOnExit ==
    pc \in {"returned", "raised"} =>
        /\ \A s \in SinkIds : Constructed(sink[s]) => sink[s].vw = "released"
        /\ \A i \in Streams : Constructed(stream[i]) => stream[i].stopped

\* the camera of every stream is released at most once, is released exactly
\* once when the reader thread has ended, and is in the released state
\* exactly when it was released
C11_OneRelease ==
    \A i \in Streams :
        LET s == stream[i]
        IN  Constructed(s) =>
            /\ s.releases <= 1
            /\ s.t = "dead" => s.releases = 1
            /\ (s.camera.state = "released") <=> (s.releases = 1)
            /\ s.released <=> (s.releases = 1)

\* a step from a state where the camera of a stream is released puts no
\* frame in that stream's queue
C11_NoPutAfterRelease ==
    \A i \in Streams :
        (Constructed(stream[i]) /\ stream[i].releases >= 1) =>
            /\ stream'[i].enq = stream[i].enq
            /\ Len(stream'[i].Q) <= Len(stream[i].Q)

\* C11: for a started stream the camera is released exactly once over the
\* run, whichever way the reader's loop ends (window end, stop(), or both),
\* and no frame is enqueued after the release.
C11_ReleasedExactlyOnce == []C11_OneRelease /\ [][C11_NoPutAfterRelease]_vars

\* C11 witness: a reader that had enqueued a frame has ended after a stop()
\* of the caller, and its camera was released once
C11_Witness ==
    \E i \in Streams :
        /\ Constructed(stream[i])
        /\ stream[i].t = "dead"
        /\ stream[i].stopcalls >= 1
        /\ Len(stream[i].enq) > 0
        /\ stream[i].releases = 1

\* C12: a reader or writer thread that has ended, also by an error of a
\* decode or encode call, has released its camera or its VideoWriter.
C12_ReleaseOnFailure ==
    /\ \A i \in Streams :
          (Constructed(stream[i]) /\ stream[i].t = "dead")
              => stream[i].camera.state = "released"
    /\ \A s \in SinkIds :
          (Constructed(sink[s]) /\ sink[s].t = "dead") => sink[s].vw = "released"

\* C13: a started stream becomes stopped with its camera released, also when
\* the window's end lies beyond the last frame of the file.
C13_StopsAtMediaEnd ==
    \A i \in Streams :
        (Constructed(stream[i]) /\ stream[i].t = "alive")
            ~> (/\ Constructed(stream[i])
                /\ stream[i].stopped
                /\ stream[i].camera.state = "released")

\* the encode handle of sink s is open
HandleOpen(s) == Constructed(sink[s]) /\ sink[s].vw = "open"

\* C14: when a sink of a later group exists, the writer thread of every sink
\* of each earlier group has ended and has released its encode handle; so
\* sinks of two different groups never hold open encode handles together.
C14_OldGroupReleasedFirst ==
    /\ \A g \in Groups, h \in Groups :
          (g < h /\ \E c \in Crops : Constructed(sink[<<h, c>>])) =>
              \A k \in 1..NCrops :
                  /\ Constructed(sink[<<g, k>>])
                  /\ sink[<<g, k>>].t = "dead"
                  /\ sink[<<g, k>>].vw = "released"
    /\ \A s \in SinkIds, u \in SinkIds :
          (HandleOpen(s) /\ HandleOpen(u)) => s[1] = u[1]

\* C14 witness: with two crops, a sink of the second group holds an open
\* encode handle after both sinks of the first group had encoded a frame
C14_Witness ==
    /\ NCrops = 2
    /\ HandleOpen(<<2, 1>>)
    /\ \A k \in 1..NCrops :
          /\ Constructed(sink[<<1, k>>])
          /\ Len(sink[<<1, k>>].out) > 0
          /\ sink[<<1, k>>].vw = "released"

\* the step that ends the first test of write() on a sink whose thread is
\* not alive raises IOError and changes no sink
C15_WriteStep ==
    (/\ op = "write"
     /\ Constructed(sink[sk])
     /\ sink[sk].t # "alive"
     /\ op' # "write")
    => (/\ op' = "idle"
        /\ ret' = [kind |-> "exc", exc |-> "IOError"]
        /\ sink' = sink)

\* C15: write() on a VideoWriter or VideoCropper whose thread is not alive
\* (ended after stop(), or never started) raises IOError and leaves the
\* queue as it was.
C15_WriterNotReady == [][C15_WriteStep]_vars

\* C15 witness: write() has raised IOError on a VideoCropper whose thread had
\* encoded a frame and ended
C15_Witness ==
    /\ op = "idle"
    /\ ret = [kind |-> "exc", exc |-> "IOError"]
    /\ Constructed(sink[sk])
    /\ sink[sk].crop
    /\ sink[sk].t = "dead"
    /\ Len(sink[sk].out) > 0
    /\ arg.idx > Len(sink[sk].accepted)

\* the step that ends start() on a stream or sink whose thread was started
\* before raises RuntimeError and changes no stream and no sink; a thread
\* that has ended is never alive again
C16_StartStep ==
    /\ (/\ op = "start" /\ Constructed(stream[cur])
        /\ stream[cur].t # "new" /\ op' # "start")
       => (/\ op' = "idle"
           /\ ret' = [kind |-> "exc", exc |-> "RuntimeError"]
           /\ stream' = stream /\ sink' = sink)
    /\ (/\ op = "kstart" /\ Constructed(sink[sk])
        /\ sink[sk].t # "new" /\ op' # "kstart")
       => (/\ op' = "idle"
           /\ ret' = [kind |-> "exc", exc |-> "RuntimeError"]
           /\ stream' = stream /\ sink' = sink)
    /\ \A i \in Streams :
          (Constructed(stream[i]) /\ stream[i].t = "dead")
              => stream'[i].t = "dead"
    /\ \A s \in SinkIds :
          (Constructed(sink[s]) /\ sink[s].t = "dead") => sink'[s].t = "dead"

\* C16: a second start() on the same VideoStream or VideoWriter raises
\* (RuntimeError of Thread.start) and starts no second thread.
C16_StartOnlyOnce == [][C16_StartStep]_vars

\* C16 witness: start() has raised RuntimeError on a stream whose reader
\* thread is running
C16_Witness ==
    /\ op = "idle"
    /\ ret = [kind |-> "exc", exc |-> "RuntimeError"]
    /\ Constructed(stream[cur])
    /\ stream[cur].t = "alive"
    /\ stream[cur].stopcalls = 0

\* C17: a VideoCropper that was constructed has a rectangle inside the frames
\* it is given: every frame its write() has put in the queue has the width
\* and height of the rectangle.
C17_RectangleInsideFrame ==
    \A s \in SinkIds :
        (Constructed(sink[s]) /\ sink[s].crop) =>
            \A n \in 1..Len(sink[s].accepted) :
                /\ sink[s].accepted[n].w = sink[s].w
                /\ sink[s].accepted[n].h = sink[s].h

\* C18: a VideoCropper whose rectangle (x, y, w, h) lies inside the images it
\* is given puts in its queue, for the n-th frame written, the sub-image of
\* rows y..y+h-1 and columns x..x+w-1 of that frame, and every frame it has
\* encoded is w x h (50 x 50 for (10, 10, 50, 50) on a 100 x 100 image).
C18_CropIsTheRectangle ==
    \A s \in SinkIds :
        LET k == sink[s]
        IN  (/\ Constructed(k) /\ k.crop
             /\ k.x + k.w <= video[1].width /\ k.y + k.h <= video[1].height)
            => /\ \A n \in 1..Len(k.accepted) :
                     k.accepted[n] = [file |-> 1, idx |-> n, x |-> k.x, y |-> k.y,
                                      w |-> k.w, h |-> k.h]
               /\ \A n \in 1..Len(k.out) : k.out[n].w = k.w /\ k.out[n].h = k.h
               /\ (video[1].width = 100 /\ video[1].height = 100
                     /\ k.x = 10 /\ k.y = 10 /\ k.w = 50 /\ k.h = 50)
                    => \A n \in 1..Len(k.out) : k.out[n].w = 50 /\ k.out[n].h = 50

\* C18 witness: the VideoCropper of (10, 10, 50, 50) has encoded two frames
\* cut from 100 x 100 images and released its handle
C18_Witness ==
    /\ video[1].width = 100 /\ video[1].height = 100
    /\ Constructed(sink[<<1, 1>>])
    /\ sink[<<1, 1>>].x = 10 /\ sink[<<1, 1>>].w = 50
    /\ Len(sink[<<1, 1>>].out) = 2
    /\ sink[<<1, 1>>].vw = "released"

\* C19: for every fps > 0 and idx >= 1, the VideoTime built at the same fps
\* from frame_videotime(idx, fps) has frame_number = idx.
C19_FrameIndexRoundTrip ==
    pc = "converted" => ret.time.frame_number = loc.idx

\* C20: for every valid text H:MM:SS.mmm, the TimeStamp parsed from the
\* printed form of the TimeStamp parsed from the text is the same time, to
\* the millisecond.
C20_TextRoundTrip ==
    pc = "reparsed" =>
        /\ ret.second = ret.first
        /\ ret.first.num = (loc.text[1] * 3600 + loc.text[2] * 60) * 1000
                              + loc.text[3]

\* C20 witness: the text 1:59:59.999 has been parsed, printed and parsed again
C20_Witness ==
    /\ pc = "reparsed"
    /\ loc.text = <<1, 59, 59999>>
    /\ ret.text = <<1, 59, 59999>>

\* C21: adding or subtracting two VideoTime objects of different fps raises
\* ValueError and gives no value; with equal fps the result is a VideoTime
\* of that fps.
C21_EqualRatesOnly ==
    (/\ pc \in {"added", "subtracted"}
     /\ loc.a.cls = "VideoTime" /\ loc.b.cls = "VideoTime")
    => IF loc.a.fps # loc.b.fps
       THEN ret = Exception("ValueError")
       ELSE /\ ret.kind = "value"
            /\ ret.value.cls = "VideoTime"
            /\ ret.value.fps = loc.a.fps

\* C21 witness: the subtraction of a VideoTime at 3 frames per second from
\* one at 25 frames per second has raised ValueError
C21_Witness ==
    /\ pc = "subtracted"
    /\ loc.a.cls = "VideoTime" /\ loc.b.cls = "VideoTime"
    /\ loc.a.fps = 25 /\ loc.b.fps = 3
    /\ ret = Exception("ValueError")

\* C22: every stream that is constructed has beginning.frame_number >= 1 and
\* end.frame_number >= beginning.frame_number, whatever beginning and end
\* the caller gives.
C22_WindowOrdered ==
    \A i \in Streams :
        Constructed(stream[i]) =>
            /\ stream[i].beginning.frame_number >= 1
            /\ stream[i].end.frame_number >= stream[i].beginning.frame_number

\* the VideoTime objects of a state: the operands and the result
TimeObjects ==
    {loc.a, loc.b} \cup (IF ret.kind = "value" THEN {ret.value} ELSE {})

\* C23: every VideoTime object, made from a text, by addition or subtraction
\* or by frame_videotime, has frame_number = floor(seconds * fps) + 1.
C23_FrameNumberDerived ==
    pc \in {"operands", "added", "subtracted"} =>
        \A v \in TimeObjects :
            v.cls = "VideoTime" =>
                v.frame_number = ((v.num * v.fps) \div v.den) + 1

\* an addition or subtraction leaves both operands as they were
C24_OperationStep ==
    (pc = "operands" /\ pc' \in {"added", "subtracted"}) =>
        /\ loc'.a = loc.a
        /\ loc'.b = loc.b

\* C24: addition and subtraction of TimeStamp and VideoTime objects return a
\* value and leave both operands unchanged (class, seconds, fps and
\* frame_number).
C24_OperandsUnchanged == [][C24_OperationStep]_vars

\* C24 witness: an addition has returned a VideoTime that differs from both
\* of its operands
C24_Witness ==
    /\ pc = "added"
    /\ ret.kind = "value"
    /\ ret.value.cls = "VideoTime"
    /\ ret.value.num # loc.a.num * (1000 \div loc.a.den)
    /\ loc.a.den \in {1, 1000}
    /\ loc.b.num > 0

\* C25: parsing a text that has a field that is not a number, or that has
\* not exactly three fields, raises and constructs no TimeStamp.
C25_MalformedRejected ==
    (/\ pc = "parsed"
     /\ \/ Len(loc.text) # 3
        \/ \E n \in 1..Len(loc.text) : loc.text[n].kind # "number")
    => ret.kind = "exc"

\* C26: every frame the reader has put in the queue was decoded at a
\* position p with beginning.frame_number <= p < end.frame_number (frames
\* decoded before the beginning are dropped), and the positions of the
\* frames put are strictly increasing.
C26_OnlyWindowFrames ==
    \A i \in Streams :
        LET s == stream[i]
        IN  Constructed(s) =>
            /\ \A n \in 1..Len(s.enq) :
                  /\ s.enq[n].file = i
                  /\ s.beginning.frame_number <= s.enq[n].idx
                  /\ s.enq[n].idx < s.end.frame_number
            /\ \A n \in 1..Len(s.enq), m \in 1..Len(s.enq) :
                  n < m => s.enq[n].idx < s.enq[m].idx

\* C26 witness: a reader whose seek to the beginning had no effect has
\* decoded from position 0, dropped the frames before the beginning and put
\* the frame of the beginning
C26_Witness ==
    \E i \in Streams :
        /\ Constructed(stream[i])
        /\ ~seek[i]
        /\ stream[i].beginning.frame_number >= 2
        /\ Len(stream[i].enq) >= 1
        /\ stream[i].enq[1].idx = stream[i].beginning.frame_number

\* the step that ends a call of in_range(): the value returned, against the
\* position and the window of the stream at the call
C27_InRangeStep ==
    (op = "in_range" /\ op' = "idle") =>
        LET s == stream[cur]
            p == s.cap_position
            b == s.beginning.frame_number
            e == s.end.frame_number
        IN  /\ ret'.kind = "value"
            /\ (ret'.value = FALSE) <=> (p < b /\ p >= e)
            /\ (b <= e) => (ret'.value = TRUE)

C27_WitnessOrdered ==
    /\ op = "idle"
    /\ ret = Value(TRUE)
    /\ Constructed(stream[cur])
    /\ stream[cur].t # "new"
    /\ stream[cur].beginning.frame_number <= stream[cur].end.frame_number
    /\ stream[cur].cap_position >= stream[cur].end.frame_number
    /\ stream[cur].cap_position > stream[cur].beginning.frame_number

\* C28: a stop() called on a started stream returns, the reader thread
\* ended and the camera released, whatever camera.grab() returns.
C28_StopReturns ==
    (/\ op = "stop"
     /\ Constructed(stream[cur])
     /\ stream[cur].t # "new")
        ~> (/\ op = "idle"
            /\ Constructed(stream[cur])
            /\ stream[cur].t = "dead"
            /\ stream[cur].camera.state = "released")

\* the same for the streams whose reader is never in the retry loop of
\* lines 161-167
C28_StopReturnsWithoutRetry ==
    \/ <>(Constructed(stream[cur]) /\ stream[cur].wpc = "retry")
    \/ C28_StopReturns

\* stop() is called on sink sk, which was started
C29_StopCalled ==
    /\ op = "kstop"
    /\ Constructed(sink[sk])
    /\ sink[sk].t # "new"

\* stop() has returned from sink sk, its writer thread ended, the VideoWriter
\* released
C29_StopReturned ==
    /\ op = "idle"
    /\ ret = Ok
    /\ Constructed(sink[sk])
    /\ sink[sk].t = "dead"
    /\ sink[sk].vw = "released"

RECURSIVE GroupAt(_)
GroupAt(n) ==
    IF n = 0 THEN 1
    ELSE LET g == GroupAt(n - 1)
         IN  IF g <= Len(options.splits) /\ loc.log[n].elapsed >= options.splits[g]
             THEN g + 1
             ELSE g

\* the consumed frames that belong to group g, in the order main read them,
\* as crop k cuts them
FramesOf(k, g) ==
    LET N == Len(loc.log)
        first == Cardinality({n \in 1..N : GroupAt(n) < g}) + 1
        last == Cardinality({n \in 1..N : GroupAt(n) <= g})
    IN  Cropped(k, first, last)

\* what write() has accepted on a sink, nothing when it was never constructed
AcceptedOf(s) == IF Constructed(sink[s]) THEN sink[s].accepted ELSE <<>>

\* all that write() has accepted for crop k, group after group
WrittenOf(k) == AcceptedOf(<<1, k>>) \o AcceptedOf(<<2, k>>) \o AcceptedOf(<<3, k>>)

\* C30: the frames main has passed to the sinks of a crop, taken group after
\* group, are the frames it has read, in the order read, none left out and
\* none twice (the last frame read may be still to write); when main has
\* returned every frame read has been encoded by every sink of exactly one
\* group, the one that is active after the rotation that frame triggered.
C30_EveryFrameToOneGroup ==
    pc \in TryPcs \cup {"finally", "fstream", "return", "returned"} =>
        LET N == Len(loc.log)
        IN  \A k \in 1..NCrops :
              /\ Len(WrittenOf(k)) \in {N - 1, N}
              /\ WrittenOf(k) = Cropped(k, 1, Len(WrittenOf(k)))
              /\ pc = "returned" =>
                    \A g \in Groups : Encoded(<<g, k>>) = FramesOf(k, g)

\* C30 witness: main has returned from a run over two files in which the
\* first frame of the second file made the sinks rotate: part1_ holds the
\* frames of the first file, part2_ begins with the first frame read from
\* the second
C30_Witness ==
    /\ pc = "returned"
    /\ options.n = 2
    /\ Len(loc.log) >= 3
    /\ Constructed(sink[<<1, 1>>]) /\ Constructed(sink[<<2, 1>>])
    /\ Len(sink[<<1, 1>>].out) >= 1
    /\ Len(sink[<<2, 1>>].out) >= 2
    /\ \A n \in 1..Len(sink[<<1, 1>>].out) : sink[<<1, 1>>].out[n].file = 1
    /\ sink[<<2, 1>>].out[1].file = 2

\* options['start'].seconds plus 1 / fps for each of the first k frames main
\* consumed, fps being that of the file the frame came from
RECURSIVE ElapsedAfter(_)
ElapsedAfter(k) ==
    IF k = 0 THEN options.start
    ELSE ElapsedAfter(k - 1) + (1000 \div video[loc.log[k].frame.file].fps)

\* C31: once main has entered the loop over the input files,
\* elapsed_seconds is options['start'] plus the sum of 1 / fps over the
\* frames consumed so far, whatever the file and the position they were
\* decoded at; so it was at each frame, and it goes on from one file to
\* the next.
C31_ElapsedIsTheSum ==
    loc.i >= 1 =>
        /\ loc.elapsed_seconds = ElapsedAfter(Len(loc.log))
        /\ \A k \in 1..Len(loc.log) : loc.log[k].elapsed = ElapsedAfter(k)

\* C31 witness: main has consumed a frame of the second input file, whose
\* elapsed_seconds continues that of the first file and is not the time of
\* the frame's position in its file
C31_Witness ==
    /\ options.n = 2
    /\ loc.i = 2
    /\ Len(loc.log) >= 2
    /\ loc.log[Len(loc.log)].frame.file = 2
    /\ loc.log[1].frame.file = 1
    /\ loc.elapsed_seconds > loc.log[1].elapsed
    /\ loc.elapsed_seconds
          # (loc.log[Len(loc.log)].frame.idx * 1000) \div video[2].fps

\* C32: every write() called on a started sink returns or raises: it does
\* not wait for ever, neither on a full queue that the writer thread empties
\* nor on a full queue whose writer thread has ended.
C32_WriteReturns ==
    (/\ op = "write"
     /\ Constructed(sink[sk])
     /\ sink[sk].t # "new")
        ~> (op = "idle")

\* a write() is never waiting on a full queue whose writer thread has ended
C32_NoWaitOnDeadWriter ==
    ~(/\ op = "write_full"
      /\ Constructed(sink[sk])
      /\ sink[sk].t = "dead"
      /\ full(sink[sk].Q))

\* every write() on a started sink returns or raises on the runs in which
\* no write() comes to wait on a full queue whose writer thread has ended
C32_WriteReturnsOtherwise ==
    \/ <>(~C32_NoWaitOnDeadWriter)
    \/ C32_WriteReturns

\* C33: with stop() called from another thread while write() calls are in
\* progress, once the VideoWriter is released every frame a write() has put
\* in the queue has been encoded.
C33_AcceptedIsEncoded ==
    \A s \in SinkIds :
        (Constructed(sink[s]) /\ sink[s].vw = "released")
            => sink[s].out = sink[s].accepted

\* the VideoInput with-block has been left: __exit__ has returned
C34_BlockLeft == pc = "done" /\ op = "idle"

\* C34: when a VideoInput with-block has been left, by the end of its loop
\* or by an exception of its body, the reader thread has ended and the
\* camera is released.
C34_ExitReleases ==
    C34_BlockLeft =>
        /\ stream[cur].t = "dead"
        /\ stream[cur].camera.state = "released"

\* the same for the blocks whose __exit__ found the stream not stopped and
\* called stop()
C34_ExitWithStopReleases ==
    (C34_BlockLeft /\ stream[cur].stopcalls >= 1) =>
        /\ stream[cur].t = "dead"
        /\ stream[cur].camera.state = "released"

\* C35: once a read() on a started stream has returned None, no later read()
\* on that stream returns a frame: the frames delivered stay those that had
\* been delivered at the first None.
C35_EndOfStreamSticky ==
    \A i \in Streams :
        (Constructed(stream[i]) /\ stream[i].eos # -1)
            => Len(stream[i].got) = stream[i].eos

\* the same for the None returned with the reader thread gone
C35_StickyOnceWorkerGone ==
    \A i \in Streams :
        (Constructed(stream[i]) /\ stream[i].nones >= 1)
            => /\ stream[i].Q = <<>>
               /\ stream[i].t = "dead"

\* the positions of main in the loop over the frames outside a rotation
C36_BetweenRotations == {"files", "sstart", "next", "got", "write"}

\* the first consumed frame that belongs to group g
C36_FirstOf(g) == Cardinality({n \in 1..Len(loc.log) : GroupAt(n) < g}) + 1

\* C36: a frame makes the sinks rotate at most once, and a rotation drops
\* exactly the first of the remaining split times: outside a rotation the
\* part number j is 1 + the number of splits dropped, the splits left are
\* the command line's from the j-th on, and the group in use is part j,
\* reached by one rotation at most per consumed frame; when main has
\* returned, every group made by a rotation has encoded the frame that
\* triggered the rotation, as its first frame.
C36_OneRotationPerFrame ==
    /\ (pc \in C36_BetweenRotations /\ loc.i >= 1) =>
          /\ loc.j = 1 + (Len(options.splits) - Len(loc.splits))
          /\ loc.splits = SubSeq(options.splits, loc.j, Len(options.splits))
          /\ loc.croppers = loc.j
          /\ loc.j <= 1 + Len(loc.log)
          /\ pc \in {"next", "write"} => loc.j = GroupAt(Len(loc.log))
    /\ pc = "returned" =>
          \A g \in Groups \ {1}, k \in 1..NCrops :
              Constructed(sink[<<g, k>>]) =>
                  /\ C36_FirstOf(g) <= Len(loc.log)
                  /\ loc.log[C36_FirstOf(g)].elapsed >= options.splits[g - 1]
                  /\ Len(sink[<<g, k>>].out) >= 1
                  /\ sink[<<g, k>>].out[1] =
                        Cropped(k, C36_FirstOf(g), C36_FirstOf(g))[1]

\* C36 witness: main has returned from a run with two split times that its
\* last frame reached together: that frame made one rotation and dropped
\* one split, and part2_ has encoded it
C36_Witness ==
    /\ pc = "returned"
    /\ Len(options.splits) = 2
    /\ options.splits[1] = options.splits[2]
    /\ loc.j = 2
    /\ loc.splits = <<options.splits[2]>>
    /\ Len(loc.log) >= 2
    /\ loc.log[Len(loc.log)].elapsed >= options.splits[2]
    /\ Len(sink[<<1, 1>>].out) = Len(loc.log) - 1
    /\ Len(sink[<<2, 1>>].out) = 1

\* main has returned from a run in which two frames made a rotation each
C36_WitnessTwoRotations ==
    /\ pc = "returned"
    /\ Len(options.splits) = 2
    /\ loc.j = 3
    /\ loc.splits = <<>>
    /\ Len(sink[<<2, 1>>].out) = 1
    /\ Len(sink[<<3, 1>>].out) >= 1

\* the frames of file i at the positions of the window of stream s, in order
C37_WindowFrames(i, s) ==
    [n \in 1..(s.end.frame_number - s.beginning.frame_number) |->
        Frame(i, s.beginning.frame_number + n - 1)]

\* C37: wherever at or before the beginning the camera stood after the
\* open, a reader that has run to its end without a stop() of the caller
\* has put exactly the frames of positions beginning.frame_number ..
\* end.frame_number - 1, in increasing order, each once.
C37_SameFramesFromAnyPosition ==
    \A i \in Streams :
        LET s == stream[i]
        IN  (Constructed(s) /\ s.t = "dead" /\ s.stopcalls = 0)
                => s.enq = C37_WindowFrames(i, s)

\* C37 witness: a reader whose camera stood after position 0 and before the
\* beginning has run to its end and has put the frames of its window
C37_Witness ==
    /\ Constructed(stream[1])
    /\ stream[1].t = "dead"
    /\ stream[1].stopcalls = 0
    /\ loc.p0 > 0
    /\ loc.p0 < stream[1].beginning.frame_number
    /\ Len(stream[1].enq) >= 1
    /\ stream[1].enq = C37_WindowFrames(1, stream[1])

\* released implies stopped
C38_ReleasedIsStopped ==
    \A i \in Streams :
        (Constructed(stream[i]) /\ stream[i].released) => stream[i].stopped

\* no step clears stopped or released, and the step that sets released is
\* the reader's, taken after its loop
C38_FlagStep ==
    \A i \in Streams :
        Constructed(stream[i]) =>
            /\ stream[i].stopped => stream'[i].stopped
            /\ stream[i].released => stream'[i].released
            /\ (~stream[i].released /\ stream'[i].released)
                  => (stream[i].t = "alive" /\ stream[i].wpc = "release")

\* C38: in every state of a stream released implies stopped; stopped and
\* released are never cleared once set; released is set only by the reader
\* thread, after it has left its loop.
C38_FlagsMonotone == []C38_ReleasedIsStopped /\ [][C38_FlagStep]_vars

\* C38 witness: a reader that had put a frame has stopped by itself at the
\* end of its window and has set released
C38_Witness ==
    \E i \in Streams :
        /\ Constructed(stream[i])
        /\ stream[i].released
        /\ stream[i].stopped
        /\ stream[i].stopcalls = 0
        /\ Len(stream[i].enq) > 0

\* the window of stream s is empty: its end is not after its beginning
C39_EmptyWindow(s) ==
    Constructed(s) /\ s.end.frame_number <= s.beginning.frame_number

\* a stream with an empty window never grabs, puts no frame and delivers none
C39_NothingDecoded ==
    \A i \in Streams :
        LET s == stream[i]
        IN  C39_EmptyWindow(s) =>
            /\ s.enq = <<>> /\ s.Q = <<>> /\ s.got = <<>>
            /\ s.wpc \notin {"grab", "retry", "retrieve"}
            /\ s.camera.pos = IF seek[i] THEN s.beginning.frame_number ELSE 0
            /\ (cur = i /\ op = "idle") => ret.kind # "frame"

\* C39: a stream whose end.frame_number is at most its
\* beginning.frame_number puts no frame in its queue: once started, its
\* reader stops at its first iteration without a grab and releases the
\* camera, and a read() returns None.
C39_EmptyWindowStopsAtOnce ==
    /\ []C39_NothingDecoded
    /\ \A i \in Streams :
          (C39_EmptyWindow(stream[i]) /\ stream[i].t = "alive")
              ~> (/\ C39_EmptyWindow(stream[i])
                  /\ stream[i].t = "dead"
                  /\ stream[i].stopped
                  /\ stream[i].camera.state = "released")

\* C39 witness: on a file that holds the frame of the beginning, a stream
\* whose end equals its beginning has ended by itself with the camera
\* released, and read() has returned None
C39_Witness ==
    \E i \in Streams :
        /\ C39_EmptyWindow(stream[i])
        /\ stream[i].end.frame_number = stream[i].beginning.frame_number
        /\ stream[i].beginning.frame_number < stream[i].length
        /\ stream[i].t = "dead"
        /\ stream[i].stopcalls = 0
        /\ stream[i].camera.state = "released"
        /\ stream[i].nones >= 1
        /\ cur = i /\ op = "idle" /\ ret = NoneRet

\* v lies between a and b
C40_Between(v, a, b) == Min(a, b) <= v /\ v <= (IF a < b THEN b ELSE a)

\* fly_finder has merged two flies of a list that held two or more
C40_Merged == loc.last.count >= 2

\* the number of flies returned, and for the last merge of two flies: the
\* pair was at the shortest distance and the area is the sum of the areas
C40_CountAndArea ==
    /\ pc = "fly_done" => Len(ret.value) = Min(loc.cnts, loc.n)
    /\ C40_Merged =>
          /\ loc.last.i # loc.last.j
          /\ \A q \in FlyPairs(loc.last.count) :
                Manhattan(loc.last.fi, loc.last.fj)
                    <= Manhattan(loc.last.before[q[1]], loc.last.before[q[2]])
          /\ loc.last.r.a = loc.last.fi.a + loc.last.fj.a
          /\ Len(loc.flies) = loc.last.count - 1

\* the x of the merged fly is the area-weighted mean of the two x, rounded,
\* and lies between them
C40_MeanOnX ==
    C40_Merged =>
        LET m == loc.last
        IN  /\ m.r.x = round(m.fi.x * m.fi.a + m.fj.x * m.fj.a, m.fi.a + m.fj.a)
            /\ C40_Between(m.r.x, m.fi.x, m.fj.x)

\* the same on the y axis
C40_MeanOnY ==
    C40_Merged =>
        LET m == loc.last
        IN  /\ m.r.y = round(m.fi.y * m.fi.a + m.fj.y * m.fj.a, m.fi.a + m.fj.a)
            /\ C40_Between(m.r.y, m.fi.y, m.fj.y)

\* C40: fly_finder(cnts, n) returns min(len(cnts), n) objects; each merge
\* replaces the two objects at the shortest Manhattan distance by one whose
\* area is the sum of their areas and whose centroid is the area-weighted
\* mean of their centroids, between them on the x and on the y axis.
C40_MergeIsWeightedMean == C40_CountAndArea /\ C40_MeanOnX /\ C40_MeanOnY

====
